---- MODULE Spec2Model ----
(***************************************************************************)
(* Model of the tender-documentation bot (app/telegram_bot.py):            *)
(*   - the media-group batch collector (queue_media_group_document,        *)
(*     finalize_media_group) running as asyncio coroutines under           *)
(*     pending_media_groups_lock, with its debounce timer tasks;           *)
(*   - the body of a finalization (build_combined_summary);                *)
(*   - the per-(chat, user) recent-text buffer                             *)
(*     (store_recent_text_message, find_recent_text_message,               *)
(*     cleanup_text_history).                                              *)
(* Time is counted in seconds.  A coroutine runs atomically between two    *)
(* suspension points (await that really suspends); every suspension point  *)
(* is a position (pc) of the handler or task.                              *)
(***************************************************************************)
EXTENDS Integers, Sequences, FiniteSets, TLC

VARIABLES
    now,                    \* the event loop's clock / datetime.now(), seconds
    events,                 \* one record per document event = one handler run
    batches,                \* heap of PendingMediaGroup objects, by identity
    pending_media_groups,   \* media_group_id -> PendingMediaGroup (0: no entry)
    lockOwner,              \* pending_media_groups_lock: handler holding it, 0 if free
    lockWaiters,            \* pending_media_groups_lock: FIFO of waiting coroutines
    tasks,                  \* the asyncio tasks running finalize_media_group
    recent_chat_texts,      \* (chat_id, user_id) -> deque of RecentChatText
    found,                  \* the last find_recent_text_message call and its result
    nstored,                \* number of store_recent_text_message calls so far
    summarizer,             \* the TenderSummarizer and its summarize call
    splitRun,               \* a call of _split_text or split_for_telegram
    whitelist_chat_ids,     \* settings.whitelist_chat_ids
    denied_chat_ids,        \* the chats the unauthorized notice was started for
    locks,                  \* the three asyncio.Lock objects, followed lock by lock
    coros                   \* the handlers and finalize tasks of the lock-by-lock model

vars == <<now, events, batches, pending_media_groups, lockOwner, lockWaiters,
          tasks, recent_chat_texts, found, nstored, summarizer, splitRun,
          whitelist_chat_ids, denied_chat_ids, locks, coros>>

batchVars == <<events, batches, pending_media_groups, lockOwner, lockWaiters, tasks>>
textVars == <<recent_chat_texts, found, nstored>>
sumVars == <<summarizer, splitRun>>
accessVars == <<whitelist_chat_ids, denied_chat_ids, locks, coros>>

----------------------------------------------------------------------------
(* Program constants *)

MEDIA_GROUP_WAIT_SECONDS == 2
CONTEXT_MESSAGE_MAX_AGE_SECONDS == 30 * 60
CONTEXT_BUFFER_SIZE == 30

(* Bounds of the model *)

MaxEvents == 3          \* document events handled in one behaviour
MaxTime == 3            \* the clock of the batch collector stops here
MaxDocs == 3            \* documents of a batch whose finalization is followed
MaxParts == 2           \* parts split_for_telegram makes of a summary
MaxStores == 3          \* store_recent_text_message calls in one behaviour
MaxClockSteps == 3      \* times the clock of the recent-text buffer moves on
MaxCapStores == 32      \* store calls when the buffer is filled to its capacity

(* Input domains *)

None == "None"
Keys == {"g1", "g2"}                    \* media_group_id values
\* The document events a behaviour draws from (each may arrive repeatedly):
\* two files of album g1, the second with the smaller message_id and the one
\* with a sender, and a file of album g2.
DocEvents ==
    { [key |-> "g1", uid |-> "f1", mid |-> 2, user |-> None],
      [key |-> "g1", uid |-> "f2", mid |-> 1, user |-> "u1"],
      [key |-> "g2", uid |-> "f1", mid |-> 1, user |-> "u1"] }
ChatOf(k) == IF k = "g1" THEN "c1" ELSE "c2"   \* message.chat_id of a group's messages
DocUids == {"f1", "f2", "f3", "f4"}     \* file_unique_id values
FileNameOf(u) ==
    CASE u = "f1" -> "a.docx" [] u = "f2" -> "b.rar" [] u = "f3" -> "c.pdf"
      [] OTHER -> "d.rar"
ExtensionOf(u) ==
    CASE u = "f1" -> ".docx" [] u = "f2" -> ".rar" [] u = "f3" -> ".pdf"
      [] OTHER -> ".rar"
SUPPORTED_ARCHIVE_EXTENSIONS == {".rar"}

Min(a, b) == IF a < b THEN a ELSE b
Max(a, b) == IF a > b THEN a ELSE b

\* Values of the two variables in the specifications that do not use them.
NoSummarizer == [pc |-> "none"]
NoSplit == [fn |-> "none"]

\* The three locks of the bot (lines 123, 125, 127).
PENDING_LOCK == "pending_media_groups_lock"
TEXT_LOCK == "recent_chat_texts_lock"
DENIED_LOCK == "denied_chat_ids_lock"
LockNames == {PENDING_LOCK, TEXT_LOCK, DENIED_LOCK}

\* asyncio.Lock(): not locked, nobody waiting.
FreeLocks == [l \in LockNames |-> [owner |-> 0, waiters |-> <<>>]]

\* The access gate and the lock-by-lock coroutines in the specifications that
\* do not follow them.
NoAccess ==
    /\ whitelist_chat_ids = {}
    /\ denied_chat_ids = {}
    /\ locks = FreeLocks
    /\ coros = <<>>

----------------------------------------------------------------------------
(* Data *)

DocumentPayload(u) ==
    [file_unique_id |-> u, file_name |-> FileNameOf(u), extension |-> ExtensionOf(u)]

PendingMediaGroup(chat, user, mid) ==
    [chat_id |-> chat, source_user_id |-> user, first_message_id |-> mid,
     documents |-> <<>>, task |-> 0]

\* A task created by asyncio.create_task(self.finalize_media_group(...)).
\*   pc: created   - scheduled, its first step has not run
\*       sleeping  - inside await asyncio.sleep(MEDIA_GROUP_WAIT_SECONDS)
\*       woken     - the sleep's future is done, the task has not resumed yet
\*       lockwait  - waiting in pending_media_groups_lock.acquire()
\*       popped .. - the body of the finalization (after the pop)
\*       done / cancelled / failed - finished
\*   cancel: Task.cancel() was called and CancelledError is not yet delivered
\* History kept for the properties: armedBy - the event whose handler created
\* the task; hit - the position the task was in when cancel() was called on
\* it; pops - how often it ran the pop of line 303; popAt - when; outcomes -
\* what each extraction attempted so far did; calls - the calls of the
\* summarizer.
NoSummary == [summary |-> [parts |-> <<>>, context |-> None], addendum |-> <<>>]

NewTask(k, i) ==
    [key |-> k, pc |-> "created", deadline |-> 0, cancel |-> FALSE,
     armedBy |-> i, hit |-> "none", pops |-> 0,
     batch |-> 0, popAt |-> 0, status |-> "ack", context |-> None,
     idx |-> 0, outcomes |-> <<>>, parts |-> <<>>, failed |-> <<>>,
     calls |-> 0, summary |-> NoSummary, nparts |-> 0, sent |-> 0]

TaskDone(t) == t.pc \in {"done", "cancelled", "failed"}

----------------------------------------------------------------------------
(* queue_media_group_document *)

\* Mutant of IsDuplicate: the check of line 285 never finds the document.
IsDuplicateNever(documents, payload) == FALSE

\* any(item.file_unique_id == payload.file_unique_id for item in pending.documents)
IsDuplicate(documents, payload) ==
    \E j \in 1..Len(documents) :
        documents[j].file_unique_id = payload.file_unique_id

\* Mutant of CancelTask: the previous task is left to run.
CancelTaskNever(ts, old) == ts

\* if pending.task and not pending.task.done(): pending.task.cancel()
CancelTask(ts, old) ==
    IF old # 0 /\ ~TaskDone(ts[old])
    THEN [ts EXCEPT ![old].cancel = TRUE, ![old].hit = ts[old].pc]
    ELSE ts

\* pending.task = asyncio.create_task(self.finalize_media_group(...))
CreateTask(ts, k, i) == Append(ts, NewTask(k, i))

\* Mutant of MergeEvent: first_message_id stays what the first event made it.
MergeEventKeepsFirst(p, e) ==
    [p EXCEPT !.source_user_id = IF @ = None THEN e.user ELSE @]

\* else-branch for an existing entry:
\*   pending.first_message_id = min(pending.first_message_id, source_message_id)
\*   if pending.source_user_id is None: pending.source_user_id = sender_user_id
MergeEvent(p, e) ==
    [p EXCEPT !.first_message_id = Min(@, e.mid),
              !.source_user_id = IF @ = None THEN e.user ELSE @]

\* Mutant of AppendAndRearm: a timer is armed only when none is outstanding,
\* so the first timer of a batch runs to its end whatever arrives later.
AppendAndRearmOnce(i, b, bs, evs) ==
    LET e == evs[i]
        payload == DocumentPayload(e.uid)
        p == bs[b]
        outstanding == p.task # 0 /\ ~TaskDone(tasks[p.task])
    IN  IF IsDuplicate(p.documents, payload)
        THEN /\ batches' = bs
             /\ tasks' = tasks
             /\ events' = [evs EXCEPT ![i].pc = "done", ![i].batch = b,
                                      ![i].appended = FALSE]
        ELSE /\ tasks' = IF outstanding THEN tasks ELSE CreateTask(tasks, e.key, i)
             /\ batches' = [bs EXCEPT ![b].documents = Append(@, payload),
                                      ![b].task = IF outstanding THEN p.task
                                                  ELSE Len(tasks) + 1]
             /\ events' = [evs EXCEPT ![i].pc = "done", ![i].batch = b,
                                      ![i].appended = TRUE]

\* Mutant of AppendAndRearm: the outstanding task is cancelled before the
\* duplicate check, which then returns without arming a new one.
AppendAndRearmCancelsFirst(i, b, bs, evs) ==
    LET e == evs[i]
        payload == DocumentPayload(e.uid)
        p == bs[b]
    IN  IF IsDuplicate(p.documents, payload)
        THEN /\ batches' = bs
             /\ tasks' = CancelTask(tasks, p.task)
             /\ events' = [evs EXCEPT ![i].pc = "done", ![i].batch = b,
                                      ![i].appended = FALSE]
        ELSE /\ tasks' = CreateTask(CancelTask(tasks, p.task), e.key, i)
             /\ batches' = [bs EXCEPT ![b].documents = Append(@, payload),
                                      ![b].task = Len(tasks) + 1]
             /\ events' = [evs EXCEPT ![i].pc = "done", ![i].batch = b,
                                      ![i].appended = TRUE]

\* Mutant of AppendAndRearm: the document is put at the head of the list.
AppendAndRearmFront(i, b, bs, evs) ==
    LET e == evs[i]
        payload == DocumentPayload(e.uid)
        p == bs[b]
    IN  IF IsDuplicate(p.documents, payload)
        THEN /\ batches' = bs
             /\ tasks' = tasks
             /\ events' = [evs EXCEPT ![i].pc = "done", ![i].batch = b,
                                      ![i].appended = FALSE]
        ELSE /\ tasks' = CreateTask(CancelTask(tasks, p.task), e.key, i)
             /\ batches' = [bs EXCEPT ![b].documents = <<payload>> \o @,
                                      ![b].task = Len(tasks) + 1]
             /\ events' = [evs EXCEPT ![i].pc = "done", ![i].batch = b,
                                      ![i].appended = TRUE]

\* Lines 285-294 on the PendingMediaGroup object b for handler i; the lock is
\* released on both ways out of the async with block.
AppendAndRearm(i, b, bs, evs) ==
    LET e == evs[i]
        payload == DocumentPayload(e.uid)
        p == bs[b]
    IN  IF IsDuplicate(p.documents, payload)
        THEN /\ batches' = bs
             /\ tasks' = tasks
             /\ events' = [evs EXCEPT ![i].pc = "done", ![i].batch = b,
                                      ![i].appended = FALSE]
        ELSE /\ tasks' = CreateTask(CancelTask(tasks, p.task), e.key, i)
             /\ batches' = [bs EXCEPT ![b].documents = Append(@, payload),
                                      ![b].task = Len(tasks) + 1]
             /\ events' = [evs EXCEPT ![i].pc = "done", ![i].batch = b,
                                      ![i].appended = TRUE]

\* Mutant of HandlerEnter: the lock is let go while reply_text is awaited.
HandlerEnterUnlocked(i, evs) ==
    LET e == evs[i]
        b == pending_media_groups[e.key]
    IN  IF b = 0
        THEN /\ events' = [evs EXCEPT ![i].pc = "ack"]
             /\ lockOwner' = 0
             /\ UNCHANGED <<batches, pending_media_groups, tasks>>
        ELSE /\ AppendAndRearm(i, b, [batches EXCEPT ![b] = MergeEvent(@, e)], evs)
             /\ lockOwner' = 0
             /\ UNCHANGED pending_media_groups

\* Handler i has just acquired pending_media_groups_lock (line 267).
HandlerEnter(i, evs) ==
    LET e == evs[i]
        b == pending_media_groups[e.key]
    IN  IF b = 0
        THEN \* await message.reply_text(...) with the lock held
             /\ events' = [evs EXCEPT ![i].pc = "ack"]
             /\ lockOwner' = i
             /\ UNCHANGED <<batches, pending_media_groups, tasks>>
        ELSE /\ AppendAndRearm(i, b, [batches EXCEPT ![b] = MergeEvent(@, e)], evs)
             /\ lockOwner' = 0
             /\ UNCHANGED pending_media_groups

LockFree == lockOwner = 0 /\ lockWaiters = <<>>

\* handle_group_document -> queue_media_group_document for a new document event.
\* Handlers of different updates may overlap (an Application that processes
\* updates concurrently); the default Application, which starts a handler when
\* the previous one has returned, has the behaviours of this model in which
\* no event arrives while another handler is waiting or in its reply_text.
Deliver(k, u, m, usr) ==
    /\ LET e == [key |-> k, uid |-> u, mid |-> m, user |-> usr, arrive |-> now,
                 pc |-> "lockwait", batch |-> 0, appended |-> FALSE,
                 created |-> FALSE]
           evs == Append(events, e)
           i == Len(evs)
       IN  IF LockFree
           THEN /\ HandlerEnter(i, evs)
                /\ UNCHANGED lockWaiters
           ELSE /\ events' = evs
                /\ lockWaiters' = Append(lockWaiters, [kind |-> "h", id |-> i])
                /\ UNCHANGED <<batches, pending_media_groups, lockOwner, tasks>>
    /\ UNCHANGED <<now, textVars, sumVars, accessVars>>

\* A document event of the behaviour, one of at most MaxEvents.
Arrive(k, u, m, usr) ==
    /\ Len(events) < MaxEvents
    /\ Deliver(k, u, m, usr)

\* A waiting handler at the head of the lock's queue gets the released lock.
HandlerLockGranted(i) ==
    /\ lockOwner = 0
    /\ lockWaiters # <<>>
    /\ Head(lockWaiters) = [kind |-> "h", id |-> i]
    /\ lockWaiters' = Tail(lockWaiters)
    /\ HandlerEnter(i, events)
    /\ UNCHANGED <<now, textVars, sumVars, accessVars>>

\* reply_text returned (ok) or raised (~ok) in the handler that holds the lock.
AckReturn(i, ok) ==
    /\ i \in 1..Len(events)
    /\ events[i].pc = "ack"
    /\ lockOwner = i
    /\ lockOwner' = 0
    /\ IF ok
       THEN LET e == events[i]
                b == Len(batches) + 1
                bs == Append(batches, PendingMediaGroup(ChatOf(e.key), e.user, e.mid))
            IN  /\ pending_media_groups' = [pending_media_groups EXCEPT ![e.key] = b]
                /\ AppendAndRearm(i, b, bs, [events EXCEPT ![i].created = TRUE])
       ELSE /\ events' = [events EXCEPT ![i].pc = "failed"]
            /\ UNCHANGED <<batches, pending_media_groups, tasks>>
    /\ UNCHANGED <<now, lockWaiters, textVars, sumVars, accessVars>>

----------------------------------------------------------------------------
(* finalize_media_group: the debounce timer *)

\* First step of the task: it reaches await asyncio.sleep(MEDIA_GROUP_WAIT_SECONDS).
TaskStart(t) ==
    /\ tasks[t].pc = "created"
    /\ ~tasks[t].cancel
    /\ tasks' = [tasks EXCEPT ![t].pc = "sleeping",
                              ![t].deadline = now + MEDIA_GROUP_WAIT_SECONDS]
    /\ UNCHANGED <<now, events, batches, pending_media_groups, lockOwner,
                   lockWaiters, textVars, sumVars, accessVars>>

\* The loop's timer completes the sleep's future, not before its deadline.
TimerExpire(t) ==
    /\ tasks[t].pc = "sleeping"
    /\ ~tasks[t].cancel
    /\ now >= tasks[t].deadline
    /\ tasks' = [tasks EXCEPT ![t].pc = "woken"]
    /\ UNCHANGED <<now, events, batches, pending_media_groups, lockOwner,
                   lockWaiters, textVars, sumVars, accessVars>>

\* Mutant of PopPending: the map is emptied.
PopPendingAll(t, ts) ==
    LET k == ts[t].key
        b == pending_media_groups[k]
    IN  /\ pending_media_groups' = [o \in Keys |-> 0]
        /\ tasks' = [ts EXCEPT ![t].pc = IF b = 0 THEN "done" ELSE "popped",
                               ![t].batch = b,
                               ![t].pops = @ + 1,
                               ![t].popAt = now]

\* Mutant of PopPending: the entry is read with get() and stays in the map.
PopPendingKeep(t, ts) ==
    LET k == ts[t].key
        b == pending_media_groups[k]
    IN  /\ pending_media_groups' = pending_media_groups
        /\ tasks' = [ts EXCEPT ![t].pc = IF b = 0 THEN "done" ELSE "popped",
                               ![t].batch = b,
                               ![t].pops = @ + 1,
                               ![t].popAt = now]

\* pending = self.pending_media_groups.pop(media_group_id, None), lock released,
\* then "if pending is None: return".
PopPending(t, ts) ==
    LET k == ts[t].key
        b == pending_media_groups[k]
    IN  /\ pending_media_groups' = [pending_media_groups EXCEPT ![k] = 0]
        /\ tasks' = [ts EXCEPT ![t].pc = IF b = 0 THEN "done" ELSE "popped",
                               ![t].batch = b,
                               ![t].pops = @ + 1,
                               ![t].popAt = now]

\* The task resumes after the sleep and reaches async with the lock.
TaskResume(t) ==
    /\ tasks[t].pc = "woken"
    /\ ~tasks[t].cancel
    /\ IF LockFree
       THEN /\ PopPending(t, tasks)
            /\ UNCHANGED lockWaiters
       ELSE /\ tasks' = [tasks EXCEPT ![t].pc = "lockwait"]
            /\ lockWaiters' = Append(lockWaiters, [kind |-> "t", id |-> t])
            /\ UNCHANGED pending_media_groups
    /\ UNCHANGED <<now, events, batches, lockOwner, textVars, sumVars, accessVars>>

\* A waiting task at the head of the lock's queue gets the released lock.
TaskLockGranted(t) ==
    /\ lockOwner = 0
    /\ lockWaiters # <<>>
    /\ Head(lockWaiters) = [kind |-> "t", id |-> t]
    /\ ~tasks[t].cancel
    /\ lockWaiters' = Tail(lockWaiters)
    /\ PopPending(t, tasks)
    /\ UNCHANGED <<now, events, batches, lockOwner, textVars, sumVars, accessVars>>

\* Mutant of AfterCancel: the except clause of lines 299-300 passes instead of
\* returning, so a task cancelled in its sleep goes on to the lock.
AfterCancelGoesOn(pc) ==
    IF pc \in {"sleeping", "woken"} THEN "woken" ELSE "cancelled"

\* The position a task is in after CancelledError was thrown into it:
\* inside the sleep (futures cancelled or already done) the except clause of
\* lines 299-300 returns; anywhere else the error ends the task.
AfterCancel(pc) ==
    IF pc \in {"sleeping", "woken"} THEN "done" ELSE "cancelled"

\* The next step of a task on which cancel() was called.
DeliverCancel(t) ==
    /\ tasks[t].cancel
    /\ ~TaskDone(tasks[t])
    /\ tasks' = [tasks EXCEPT ![t].pc = AfterCancel(@), ![t].cancel = FALSE]
    /\ lockWaiters' = SelectSeq(lockWaiters, LAMBDA w : w # [kind |-> "t", id |-> t])
    /\ UNCHANGED <<now, events, batches, pending_media_groups, lockOwner, textVars, sumVars, accessVars>>

Tick ==
    /\ now < MaxTime
    /\ now' = now + 1
    /\ UNCHANGED <<batchVars, textVars, sumVars, accessVars>>

----------------------------------------------------------------------------
(* Recent-text buffer: store_recent_text_message, find_recent_text_message *)

Chats == {"c1", "c2"}
Users == {"u1", "u2"}
TextKeys == Chats \X Users
NoKey == <<None, None>>

\* Texts of group messages; the ones PROCUREMENT_LINK_PATTERN matches.
LinkTexts == {"https://zakupki.gov.ru/epz/order/A", "https://zakupki.gov.ru/epz/order/B"}

\* contains_procurement_link(text)
contains_procurement_link(text) == text \in LinkTexts

RecentChatText(mid, text, date) ==
    [message_id |-> mid, text |-> text, date |-> date,
     has_procurement_link |-> contains_procurement_link(text)]

NoItem == [message_id |-> 0, text |-> None, date |-> 0, has_procurement_link |-> FALSE]

\* cleanup_text_history: pop from the left while the leftmost entry is older
\* than the cutoff.
CleanupTextHistory(history, t) ==
    LET cutoff == t - CONTEXT_MESSAGE_MAX_AGE_SECONDS
        n == Len(history)
        first == CHOOSE j \in 1..(n + 1) :
                    /\ \A i \in 1..(j - 1) : history[i].date < cutoff
                    /\ j <= n => ~(history[j].date < cutoff)
    IN  SubSeq(history, first, n)

\* Mutant of DequeAppend: a deque made without maxlen.
DequeAppendUnbounded(history, item) ==
    Append(history, item)

\* deque(maxlen=CONTEXT_BUFFER_SIZE).append(item): a full deque discards its
\* leftmost item.
DequeAppend(history, item) ==
    IF Len(history) >= CONTEXT_BUFFER_SIZE
    THEN Append(Tail(history), item)
    ELSE Append(history, item)

\* Lines 384-392: append, then cleanup.
StoreRecent(history, item, t) ==
    CleanupTextHistory(DequeAppend(history, item), t)

\* max(items, key=lambda item: item.message_id): the first item, in the
\* order of the list, whose message_id is the largest.
MaxByMessageId(items) ==
    LET j == CHOOSE j \in 1..Len(items) :
                /\ \A i \in 1..Len(items) : items[i].message_id <= items[j].message_id
                /\ \A i \in 1..(j - 1) : items[i].message_id < items[j].message_id
    IN  items[j]

\* Mutant of SelectContext: the most recent candidate, linked or not.
SelectContextRecency(history, before_message_id) ==
    LET candidates == SelectSeq(history, LAMBDA item : item.message_id < before_message_id)
    IN  IF candidates = <<>> THEN NoItem ELSE MaxByMessageId(candidates)

\* Lines 410-418 on the history left by the cleanup.
SelectContext(history, before_message_id) ==
    LET candidates == SelectSeq(history, LAMBDA item : item.message_id < before_message_id)
        procurement_candidates == SelectSeq(candidates, LAMBDA item : item.has_procurement_link)
    IN  IF candidates = <<>> THEN NoItem
        ELSE IF procurement_candidates # <<>> THEN MaxByMessageId(procurement_candidates)
        ELSE MaxByMessageId(candidates)

\* find_recent_text_message: the map it leaves and the item whose text it
\* returns (NoItem: it returns None).
FindRecentTextMessage(texts, chat_id, user_id, before_message_id, t) ==
    IF user_id = None \/ texts[<<chat_id, user_id>>] = <<>>
    THEN [texts |-> texts, item |-> NoItem]
    ELSE LET key == <<chat_id, user_id>>
             history == CleanupTextHistory(texts[key], t)
         IN  [texts |-> [texts EXCEPT ![key] = history],
              item |-> SelectContext(history, before_message_id)]

NoFind == [key |-> NoKey, before |-> 0, at |-> 0, item |-> NoItem]

\* handle_group_text_message -> store_recent_text_message (no suspension
\* inside: recent_chat_texts_lock is never held across an await).
StoreText(chat, user, mid, text, date) ==
    /\ recent_chat_texts' =
           [recent_chat_texts EXCEPT ![<<chat, user>>] =
                StoreRecent(@, RecentChatText(mid, text, date), now)]
    /\ nstored' = nstored + 1
    /\ found' = NoFind
    /\ UNCHANGED <<now, batchVars, sumVars, accessVars>>

\* A call of find_recent_text_message.
FindContext(chat, user, before) ==
    LET r == FindRecentTextMessage(recent_chat_texts, chat, user, before, now)
    IN  /\ recent_chat_texts' = r.texts
        /\ found' = [key |-> <<chat, user>>, before |-> before, at |-> now,
                     item |-> r.item]
        /\ UNCHANGED <<now, nstored, batchVars, sumVars, accessVars>>

\* datetime.now() moves on.
AdvanceClock(d) ==
    /\ now' = now + d
    /\ found' = NoFind
    /\ UNCHANGED <<recent_chat_texts, nstored, batchVars, sumVars, accessVars>>


----------------------------------------------------------------------------
(* finalize_media_group after the pop, build_combined_summary *)

\* What extract_payload_texts can do for a payload: 0 - it raises; n > 0 - it
\* returns n (label, text) parts.  A document yields one part, an archive one
\* per readable inner document; neither returns an empty list.
ExtractOutcomes(payload) ==
    IF payload.extension \in SUPPORTED_ARCHIVE_EXTENSIONS THEN {0, 1, 2} ELSE {0, 1}

\* The messages of the exceptions an extraction raises.
Reasons == {"corrupt file", "cannot open /tmp/tmp1/c.pdf"}

\* The labels of the parts extract_payload_texts returns.
PartsOf(payload, n) ==
    IF payload.extension \in SUPPORTED_ARCHIVE_EXTENSIONS
    THEN [j \in 1..n |-> [doc |-> payload.file_unique_id,
                          label |-> <<payload.file_name, j>>]]
    ELSE <<[doc |-> payload.file_unique_id, label |-> <<payload.file_name, 0>>]>>

\* Mutant of NoteFailure: the list is assigned, not appended to.
NoteFailureOverwrite(failed_files, payload, reason) ==
    <<[name |-> payload.file_name, reason |-> reason]>>

\* except Exception as exc: failed_files.append(f"{payload.file_name}: {exc}")
NoteFailure(failed_files, payload, reason) ==
    Append(failed_files, [name |-> payload.file_name, reason |-> reason])

\* Lines 362-366: the text build_combined_summary returns.
WithAddendum(summary, failed_files) ==
    [summary |-> summary, addendum |-> failed_files]

\* The text summarize_extracted_parts gets from the summarizer, by what it
\* was asked to summarize.
SummaryOf(extracted_parts, context_text) ==
    [parts |-> extracted_parts, context |-> context_text]

\* except clauses of lines 326-335: the notice that replaces the status message.
Notice(kind) ==
    IF kind = "extraction" THEN "notice_extraction" ELSE "notice_generic"

\* status_message.edit_text("...") returned or raised; on return
\* find_recent_text_message runs and build_combined_summary reaches its
\* first extraction.
EditReturn(t, ok) ==
    /\ tasks[t].pc = "popped"
    /\ ~tasks[t].cancel
    /\ IF ok
       THEN LET p == batches[tasks[t].batch]
                r == FindRecentTextMessage(recent_chat_texts, p.chat_id,
                                           p.source_user_id, p.first_message_id, now)
            IN  /\ recent_chat_texts' = r.texts
                /\ found' = [key |-> <<p.chat_id, p.source_user_id>>,
                             before |-> p.first_message_id, at |-> now,
                             item |-> r.item]
                /\ tasks' = [tasks EXCEPT ![t].status = "progress",
                                          ![t].context = r.item.text,
                                          ![t].pc = "extract",
                                          ![t].idx = 1]
       ELSE /\ tasks' = [tasks EXCEPT ![t].pc = Notice("other")]
            /\ UNCHANGED <<recent_chat_texts, found>>
    /\ UNCHANGED <<now, events, batches, pending_media_groups, lockOwner,
                   lockWaiters, nstored, sumVars, accessVars>>

\* extract_payload_texts for documents[idx] returned n parts or raised
\* (n = 0); after the last document, lines 353-360.
ExtractReturn(t, n, reason) ==
    /\ tasks[t].pc = "extract"
    /\ ~tasks[t].cancel
    /\ LET documents == batches[tasks[t].batch].documents
           payload == documents[tasks[t].idx]
           extracted_parts == IF n > 0 THEN tasks[t].parts \o PartsOf(payload, n)
                              ELSE tasks[t].parts
           failed_files == IF n > 0 THEN tasks[t].failed
                           ELSE NoteFailure(tasks[t].failed, payload, reason)
           last == tasks[t].idx >= Len(documents)
       IN  /\ n \in ExtractOutcomes(payload)
           /\ tasks' = [tasks EXCEPT
                  ![t].outcomes = Append(@, [doc |-> payload.file_unique_id, n |-> n]),
                  ![t].parts = extracted_parts,
                  ![t].failed = failed_files,
                  ![t].idx = @ + 1,
                  ![t].calls = IF last /\ extracted_parts # <<>> THEN @ + 1 ELSE @,
                  ![t].pc = IF ~last THEN "extract"
                            ELSE IF extracted_parts = <<>> THEN Notice("extraction")
                            ELSE "summarize"]
    /\ UNCHANGED <<now, events, batches, pending_media_groups, lockOwner,
                   lockWaiters, textVars, sumVars, accessVars>>

\* summarizer.summarize returned or raised; on return the addendum is added,
\* the text is split in nparts parts (split_for_telegram) and
\* status_message.delete() is awaited.
SummarizeReturn(t, ok, nparts) ==
    /\ tasks[t].pc = "summarize"
    /\ ~tasks[t].cancel
    /\ tasks' = IF ok
                THEN [tasks EXCEPT
                        ![t].summary = WithAddendum(
                            SummaryOf(tasks[t].parts, tasks[t].context),
                            tasks[t].failed),
                        ![t].nparts = nparts,
                        ![t].pc = "delete"]
                ELSE [tasks EXCEPT ![t].pc = Notice("other")]
    /\ UNCHANGED <<now, events, batches, pending_media_groups, lockOwner,
                   lockWaiters, textVars, sumVars, accessVars>>

\* status_message.delete() returned or raised.
DeleteReturn(t, ok) ==
    /\ tasks[t].pc = "delete"
    /\ ~tasks[t].cancel
    /\ tasks' = IF ok
                THEN [tasks EXCEPT ![t].status = "deleted", ![t].pc = "send"]
                ELSE [tasks EXCEPT ![t].pc = Notice("other")]
    /\ UNCHANGED <<now, events, batches, pending_media_groups, lockOwner,
                   lockWaiters, textVars, sumVars, accessVars>>

\* bot.send_message for the next part of split_for_telegram(formatted_summary)
\* returned or raised.
SendReturn(t, ok) ==
    /\ tasks[t].pc = "send"
    /\ ~tasks[t].cancel
    /\ tasks' = IF ok
                THEN [tasks EXCEPT ![t].sent = @ + 1,
                                   ![t].pc = IF tasks[t].sent + 1 < tasks[t].nparts
                                             THEN "send" ELSE "done"]
                ELSE [tasks EXCEPT ![t].pc = Notice("other")]
    /\ UNCHANGED <<now, events, batches, pending_media_groups, lockOwner,
                   lockWaiters, textVars, sumVars, accessVars>>

\* status_message.edit_text(<failure notice>) of an except clause returned
\* or raised.
NoticeReturn(t, ok) ==
    /\ tasks[t].pc \in {"notice_extraction", "notice_generic"}
    /\ ~tasks[t].cancel
    /\ tasks' = IF ok
                THEN [tasks EXCEPT ![t].status = tasks[t].pc, ![t].pc = "done"]
                ELSE [tasks EXCEPT ![t].pc = "failed"]
    /\ UNCHANGED <<now, events, batches, pending_media_groups, lockOwner,
                   lockWaiters, textVars, sumVars, accessVars>>

----------------------------------------------------------------------------

Init ==
    /\ now = 0
    /\ events = <<>>
    /\ batches = <<>>
    /\ pending_media_groups = [k \in Keys |-> 0]
    /\ lockOwner = 0
    /\ lockWaiters = <<>>
    /\ tasks = <<>>
    /\ recent_chat_texts = [k \in TextKeys |-> <<>>]
    /\ found = NoFind
    /\ nstored = 0
    /\ summarizer = NoSummarizer
    /\ splitRun = NoSplit
    /\ NoAccess

Next ==
    \/ \E d \in DocEvents : Arrive(d.key, d.uid, d.mid, d.user)
    \/ \E i \in 1..Len(events) : HandlerLockGranted(i)
    \/ \E i \in 1..Len(events), ok \in BOOLEAN : AckReturn(i, ok)
    \/ \E t \in 1..Len(tasks) : TaskStart(t)
    \/ \E t \in 1..Len(tasks) : TimerExpire(t)
    \/ \E t \in 1..Len(tasks) : TaskResume(t)
    \/ \E t \in 1..Len(tasks) : TaskLockGranted(t)
    \/ \E t \in 1..Len(tasks) : DeliverCancel(t)
    \/ Tick

Spec == Init /\ [][Next]_vars

----------------------------------------------------------------------------
(* The body of one finalization, from the pop on, for every batch of up to  *)
(* MaxDocs documents.                                                       *)

DocSeqs ==
    { d \in UNION { [1..n -> DocUids] : n \in 1..MaxDocs } :
        \A i, j \in DOMAIN d : i # j => d[i] # d[j] }

InitFinalize ==
    /\ now = 0
    /\ events = <<>>
    /\ pending_media_groups = [k \in Keys |-> 0]
    /\ lockOwner = 0
    /\ lockWaiters = <<>>
    /\ \E d \in DocSeqs, usr \in {None, "u1"} :
           batches = << [chat_id |-> "c1", source_user_id |-> usr,
                         first_message_id |-> 10,
                         documents |-> [j \in DOMAIN d |-> DocumentPayload(d[j])],
                         task |-> 1] >>
    /\ tasks = << [NewTask("g1", 0) EXCEPT !.pc = "popped", !.batch = 1,
                                        !.deadline = 0, !.popAt = 0] >>
    /\ \E h \in {<<>>, <<RecentChatText(8, "price 100", 0)>>} :
           recent_chat_texts = [k \in TextKeys |->
                                   IF k = <<"c1", "u1">> THEN h ELSE <<>>]
    /\ found = NoFind
    /\ nstored = 0
    /\ summarizer = NoSummarizer
    /\ splitRun = NoSplit
    /\ NoAccess

NextFinalize ==
    \/ \E t \in 1..Len(tasks), ok \in BOOLEAN : EditReturn(t, ok)
    \/ \E t \in 1..Len(tasks), n \in 0..2, r \in Reasons : ExtractReturn(t, n, r)
    \/ \E t \in 1..Len(tasks), ok \in BOOLEAN, np \in 1..MaxParts :
           SummarizeReturn(t, ok, np)
    \/ \E t \in 1..Len(tasks), ok \in BOOLEAN : DeleteReturn(t, ok)
    \/ \E t \in 1..Len(tasks), ok \in BOOLEAN : SendReturn(t, ok)
    \/ \E t \in 1..Len(tasks), ok \in BOOLEAN : NoticeReturn(t, ok)

SpecFinalize == InitFinalize /\ [][NextFinalize]_vars

----------------------------------------------------------------------------
(* The recent-text buffer under arbitrary stores, lookups and clock moves.  *)

ClockStep == CONTEXT_MESSAGE_MAX_AGE_SECONDS \div 2

\* The text messages a behaviour draws from: message_id and text.
TextEvents ==
    { <<5, "https://zakupki.gov.ru/epz/order/A">>, <<5, "price 100">>,
      <<8, "see attached">>, <<8, "https://zakupki.gov.ru/epz/order/B">>,
      <<12, "hello">> }

StoreKeys == {<<"c1", "u1">>, <<"c1", "u2">>}

\* message.date of a stored message: a new message, or an old one (the update
\* of an edited message carries the date the message was first sent).
MessageDates == {now, now - 3 * ClockStep}

\* Telegram numbers the messages of a chat in the order it dates them: a
\* message_id and a date can come together only if they agree with the
\* messages of the chat that are in the buffers.
ConsistentDate(chat, mid, date) ==
    \A k \in TextKeys :
        k[1] = chat =>
            \A j \in 1..Len(recent_chat_texts[k]) :
                LET e == recent_chat_texts[k][j]
                IN  /\ e.message_id < mid => e.date <= date
                    /\ e.message_id > mid => e.date >= date
                    /\ e.message_id = mid => e.date = date

InitText ==
    /\ now = 0
    /\ events = <<>>
    /\ batches = <<>>
    /\ pending_media_groups = [k \in Keys |-> 0]
    /\ lockOwner = 0
    /\ lockWaiters = <<>>
    /\ tasks = <<>>
    /\ recent_chat_texts = [k \in TextKeys |-> <<>>]
    /\ found = NoFind
    /\ nstored = 0
    /\ summarizer = NoSummarizer
    /\ splitRun = NoSplit
    /\ NoAccess

NextText ==
    \/ /\ nstored < MaxStores
       /\ \E k \in StoreKeys, m \in TextEvents, d \in MessageDates :
              /\ ConsistentDate(k[1], m[1], d)
              /\ StoreText(k[1], k[2], m[1], m[2], d)
    \/ \E k \in StoreKeys, before \in {5, 10, 13} : FindContext(k[1], k[2], before)
    \/ \E before \in {10} : FindContext("c1", None, before)
    \/ /\ now < MaxClockSteps * ClockStep
       /\ AdvanceClock(ClockStep)

SpecText == InitText /\ [][NextText]_vars

----------------------------------------------------------------------------
(* One buffer filled beyond its capacity.                                   *)

NextCap ==
    \/ /\ nstored < MaxCapStores
       /\ StoreText("c1", "u1", nstored + 1, "hello", now)
    \/ /\ now < MaxClockSteps * ClockStep
       /\ AdvanceClock(ClockStep)

SpecCap == InitText /\ [][NextCap]_vars

----------------------------------------------------------------------------
(* Properties of the recent-text buffer *)

\* The history find_recent_text_message searched in its last call: what the
\* cleanup left of the buffer of the key it was called with.
Retained ==
    IF found.key = NoKey \/ found.key[2] = None THEN <<>>
    ELSE recent_chat_texts[found.key]

Below == { j \in 1..Len(Retained) : Retained[j].message_id < found.before }
Marked == { j \in Below : Retained[j].has_procurement_link }

\* C8: find_recent_text_message returns None when no retained entry of the
\* (chat, user) has message_id < before_message_id; otherwise, when some such
\* entry has a procurement link, the text of a linked one with the largest
\* message_id among the linked ones; otherwise the text of one with the
\* largest message_id below before_message_id.
C8_Selection ==
    found.key # NoKey =>
        LET pool == IF Marked # {} THEN Marked ELSE Below
        IN  IF Below = {}
            THEN found.item.text = None
            ELSE \E j \in pool :
                    /\ found.item.text = Retained[j].text
                    /\ found.item = Retained[j]
                    /\ \A i \in pool :
                          Retained[i].message_id <= Retained[j].message_id

\* C8 witness: entries 5, 8 and 12 are retained, 5 has a link and 8 has none,
\* and the lookup before 10 returned the text of 5.
C8_Witness ==
    /\ found.before = 10
    /\ found.item.message_id = 5
    /\ found.item.has_procurement_link
    /\ \E j \in Below : Retained[j].message_id = 8 /\ ~Retained[j].has_procurement_link
    /\ \E j \in 1..Len(Retained) : Retained[j].message_id = 12

\* C9 (as claimed): find_recent_text_message never returns the text of an
\* entry whose date is older than the retention window at the time of the
\* lookup.
C9_NeverReturnsExpired ==
    found.item # NoItem =>
        found.item.date >= found.at - CONTEXT_MESSAGE_MAX_AGE_SECONDS

\* C10: a buffer never holds more than CONTEXT_BUFFER_SIZE entries, and a
\* store leaves a suffix of the old buffer followed by the stored entry: only
\* the oldest entries go, the others keep their order.
C10_Capacity ==
    [][ \A k \in TextKeys :
          LET old == recent_chat_texts[k]
              new == recent_chat_texts'[k]
          IN  /\ Len(new) <= CONTEXT_BUFFER_SIZE
              /\ nstored' = nstored + 1 =>
                    \/ new = old
                    \/ new = <<>>
                    \/ \E d \in 0..Len(old) :
                          new = SubSeq(Append(old, new[Len(new)]), d + 1, Len(old) + 1)
      ]_vars

\* C10 witness: the 31st store into a full buffer dropped the entry stored
\* first and kept the 30 stored after it.
C10_Witness ==
    LET h == recent_chat_texts[<<"c1", "u1">>]
    IN  /\ nstored = CONTEXT_BUFFER_SIZE + 1
        /\ Len(h) = CONTEXT_BUFFER_SIZE
        /\ \A j \in 1..Len(h) : h[j].message_id = j + 1

----------------------------------------------------------------------------
(* Properties of build_combined_summary *)

\* The documents of the batch task t finalizes, and what their extractions did.
DocsOf(t) == batches[tasks[t].batch].documents
FailedIdx(t) == { j \in 1..Len(tasks[t].outcomes) : tasks[t].outcomes[j].n = 0 }
ExtractedIdx(t) == { j \in 1..Len(tasks[t].outcomes) : tasks[t].outcomes[j].n > 0 }

\* The i-th failed document, in batch order.
NthFailed(t, i) ==
    CHOOSE j \in FailedIdx(t) : Cardinality({ m \in FailedIdx(t) : m <= j }) = i

\* Task t has left the loop of lines 346-351.
ExtractionOver(t) == tasks[t].idx >= 1 /\ tasks[t].pc # "extract"

\* C7: extraction is attempted for every document of the batch, in order,
\* whatever fails; when some document was extracted the summarizer is called
\* once, over the parts of exactly the extracted documents, and the text
\* returned lists exactly the failed documents, in batch order; when none was
\* extracted the batch ends in the extraction failure and the summarizer is
\* never called.
C7_ExtractionFailures ==
    \A t \in 1..Len(tasks) :
        tasks[t].batch # 0 =>
            LET docs == DocsOf(t)
                out == tasks[t].outcomes
                text == tasks[t].summary
            IN  /\ Len(out) <= Len(docs)
                /\ \A j \in 1..Len(out) : out[j].doc = docs[j].file_unique_id
                /\ ExtractionOver(t) => Len(out) = Len(docs)
                /\ ExtractionOver(t) /\ ExtractedIdx(t) # {} =>
                      /\ tasks[t].calls = 1
                      /\ { tasks[t].parts[i].doc : i \in 1..Len(tasks[t].parts) }
                            = { docs[j].file_unique_id : j \in ExtractedIdx(t) }
                      /\ Len(tasks[t].parts) >= Cardinality(ExtractedIdx(t))
                      /\ text # NoSummary =>
                            /\ text.summary.parts = tasks[t].parts
                            /\ Len(text.addendum) = Cardinality(FailedIdx(t))
                            /\ \A i \in 1..Len(text.addendum) :
                                  text.addendum[i].name = docs[NthFailed(t, i)].file_name
                /\ ExtractionOver(t) /\ ExtractedIdx(t) = {} =>
                      /\ tasks[t].calls = 0
                      /\ text = NoSummary
                      /\ tasks[t].sent = 0
                      /\ \/ tasks[t].pc = "notice_extraction"
                         \/ tasks[t].status = "notice_extraction"
                         \/ tasks[t].pc = "failed"

\* C7 witness: two of three documents failed, the third was summarized and
\* the text returned lists the two.
C7_Witness ==
    \E t \in 1..Len(tasks) :
        /\ tasks[t].batch # 0
        /\ Len(DocsOf(t)) = 3
        /\ Cardinality(FailedIdx(t)) = 2
        /\ tasks[t].summary # NoSummary
        /\ Len(tasks[t].summary.addendum) = 2

----------------------------------------------------------------------------
(* Properties of the batch collector *)

\* The events whose handler ran lines 285-294 on the PendingMediaGroup b.
EventsOf(b) ==
    { i \in 1..Len(events) : events[i].pc = "done" /\ events[i].batch = b }

\* The tasks that removed the PendingMediaGroup b from the map.
PoppedBy(b) ==
    { t \in 1..Len(tasks) : tasks[t].pops > 0 /\ tasks[t].batch = b }

\* A timer task that is scheduled, not cancelled, and has not popped yet.
Outstanding(t) ==
    /\ tasks[t].pc \in {"created", "sleeping", "woken", "lockwait"}
    /\ ~tasks[t].cancel

\* C2: a task on which cancel() was called never pops the entry and never
\* reaches the body of the finalization, whatever position the cancellation
\* found it in; every PendingMediaGroup is popped by at most one task, the
\* one armed last for it.
C2_SupersededNeverFinalizes ==
    /\ \A t \in 1..Len(tasks) :
          tasks[t].hit # "none" =>
              /\ tasks[t].pops = 0
              /\ tasks[t].batch = 0
              /\ tasks[t].pc \in {"created", "sleeping", "woken", "lockwait",
                                  "done", "cancelled"}
    /\ \A b \in 1..Len(batches) :
          /\ Cardinality(PoppedBy(b)) <= 1
          /\ \A t \in PoppedBy(b) : tasks[t].pops = 1 /\ batches[b].task = t

\* C2 witness: a task cancelled after its sleep had completed and before it
\* resumed has ended without popping, and the task armed in its place is
\* scheduled for the same key.
C2_Witness ==
    \E t, n \in 1..Len(tasks) :
        /\ tasks[t].hit = "woken"
        /\ tasks[t].pc = "done"
        /\ tasks[t].pops = 0
        /\ n > t
        /\ tasks[n].key = tasks[t].key
        /\ Outstanding(n)
        /\ pending_media_groups[tasks[t].key] # 0
        /\ batches[pending_media_groups[tasks[t].key]].task = n

\* C3: for every media_group_id at most one timer task is outstanding; a step
\* that creates a task is the step that appends a document to the mapped
\* entry of the task's key, makes the new task the entry's task, and calls
\* cancel() on the task that was outstanding for the key.
C3_SingleOutstandingTimer ==
    /\ [](\A k \in Keys :
            Cardinality({ t \in 1..Len(tasks) :
                            tasks[t].key = k /\ Outstanding(t) }) <= 1)
    /\ [][ Len(tasks') # Len(tasks) =>
             LET n == Len(tasks')
                 k == tasks'[n].key
                 b == pending_media_groups'[k]
                 i == tasks'[n].armedBy
                 before == IF b <= Len(batches) THEN batches[b].documents ELSE <<>>
             IN  /\ n = Len(tasks) + 1
                 /\ b # 0
                 /\ batches'[b].task = n
                 /\ events'[i].key = k
                 /\ batches'[b].documents = Append(before, DocumentPayload(events'[i].uid))
                 /\ tasks'[n].pc = "created"
                 /\ \A t \in 1..Len(tasks) :
                       tasks[t].key = k /\ Outstanding(t) => tasks'[t].cancel
         ]_vars

\* C3 witness: a second document re-armed the timer: cancel() was called on
\* the sleeping task and the new task is the only one outstanding.
C3_Witness ==
    \E t, n \in 1..Len(tasks) :
        /\ tasks[t].cancel
        /\ tasks[t].hit = "sleeping"
        /\ tasks[n].key = tasks[t].key
        /\ Outstanding(n)
        /\ Len(batches[pending_media_groups[tasks[n].key]].documents) = 2

\* C4: no PendingMediaGroup holds two documents with the same file_unique_id:
\* it holds exactly one document for every file_unique_id of the events
\* handled on it, however many of them carried it.
C4_Deduplication ==
    \A b \in 1..Len(batches) :
        \A u \in DocUids :
            Cardinality({ j \in 1..Len(batches[b].documents) :
                            batches[b].documents[j].file_unique_id = u })
                = IF \E i \in EventsOf(b) : events[i].uid = u THEN 1 ELSE 0

\* C4 witness: two events with the same file_unique_id were handled on one
\* entry, and the entry was popped with one document.
C4_Witness ==
    \E b \in 1..Len(batches) :
        /\ PoppedBy(b) # {}
        /\ Len(batches[b].documents) = 1
        /\ \E i, j \in EventsOf(b) : i # j /\ events[i].uid = events[j].uid


\* C5: a PendingMediaGroup that a task has popped is not in the map and is
\* never changed again; the pop is one step, taken while no handler holds the
\* lock, by a task that was not cancelled; an event handled when its key has
\* no entry is acknowledged first and, once the acknowledgment has returned,
\* is put in a new PendingMediaGroup with a new task, never in a popped one.
C5_EpochIsolation ==
    /\ [](\A b \in 1..Len(batches) :
            PoppedBy(b) # {} => \A k \in Keys : pending_media_groups[k] # b)
    /\ [][ /\ \A b \in 1..Len(batches) :
                PoppedBy(b) # {} => batches'[b] = batches[b]
           /\ \A t \in 1..Len(tasks) :
                tasks'[t].pops # tasks[t].pops =>
                    /\ lockOwner = 0 /\ lockOwner' = 0
                    /\ tasks[t].hit = "none"
                    /\ tasks'[t].batch = pending_media_groups[tasks[t].key]
                    /\ pending_media_groups'[tasks[t].key] = 0
           /\ \A i \in 1..Len(events') :
                LET e == events'[i]
                    was == IF i <= Len(events) THEN events[i].pc ELSE "new"
                IN  /\ was \in {"new", "lockwait"} /\ e.pc # "lockwait"
                      /\ pending_media_groups[e.key] = 0
                         => e.pc = "ack" /\ batches' = batches
                    /\ e.pc = "done" /\ was # "done" =>
                         /\ pending_media_groups'[e.key] = e.batch
                         /\ PoppedBy(e.batch) = {}
                         /\ pending_media_groups[e.key] = 0 =>
                               /\ was = "ack"
                               /\ e.created
                               /\ e.batch = Len(batches) + 1
                               /\ batches'[e.batch] =
                                     [PendingMediaGroup(ChatOf(e.key), e.user, e.mid)
                                        EXCEPT !.documents = <<DocumentPayload(e.uid)>>,
                                               !.task = Len(tasks) + 1]
                               /\ Len(tasks') = Len(tasks) + 1
         ]_vars

\* C5 witness: a task popped the entry of a key, and an event of the same key
\* with a file of the popped batch, handled after the pop, was acknowledged
\* and is alone in a new PendingMediaGroup, the popped one as it was.
C5_Witness ==
    \E t \in 1..Len(tasks), i \in 1..Len(events) :
        /\ tasks[t].pops = 1
        /\ tasks[t].batch # 0
        /\ events[i].key = tasks[t].key
        /\ events[i].pc = "done"
        /\ events[i].created
        /\ events[i].batch > tasks[t].batch
        /\ pending_media_groups[events[i].key] = events[i].batch
        /\ \E j \in EventsOf(tasks[t].batch) : events[j].uid = events[i].uid
        /\ Len(batches[tasks[t].batch].documents) = 1
        /\ Len(batches[events[i].batch].documents) = 1


\* The time the latest of the events handled on b arrived.
LastArrival(b) ==
    CHOOSE a \in { events[i].arrive : i \in EventsOf(b) } :
        \A i \in EventsOf(b) : events[i].arrive <= a

\* C6 (as claimed): every event handled while its key has an entry re-arms
\* the timer, an event whose file_unique_id is already in the entry too: the
\* document is not appended again, but a new task is created for the event
\* and the deadline of the entry's timer is no earlier than that arrival plus
\* MEDIA_GROUP_WAIT_SECONDS.
C6_EveryArrivalRearms ==
    /\ \A i \in 1..Len(events) :
          events[i].pc = "done" /\ ~events[i].created =>
              \E t \in 1..Len(tasks) :
                  tasks[t].armedBy = i /\ tasks[t].key = events[i].key
    /\ \A b \in 1..Len(batches) :
          LET t == batches[b].task
          IN  tasks[t].pc = "sleeping" /\ EventsOf(b) # {} =>
                  tasks[t].deadline >= LastArrival(b) + MEDIA_GROUP_WAIT_SECONDS

\* C1 (as claimed): events of one key that were handled and arrived less than
\* MEDIA_GROUP_WAIT_SECONDS apart are finalized together, in one finalization
\* whose documents are the distinct file_unique_ids of its events and nothing
\* else, and which starts no earlier than the arrival of the last of them plus
\* MEDIA_GROUP_WAIT_SECONDS.
C1_Debounce ==
    /\ \A i, j \in 1..Len(events) :
          /\ events[i].pc = "done" /\ events[j].pc = "done"
          /\ events[i].key = events[j].key
          /\ i < j
          /\ events[j].arrive - events[i].arrive < MEDIA_GROUP_WAIT_SECONDS
          => events[i].batch = events[j].batch
    /\ \A b \in 1..Len(batches) :
          /\ Cardinality(PoppedBy(b)) <= 1
          /\ \A t \in PoppedBy(b) :
                /\ { batches[b].documents[j].file_unique_id :
                        j \in 1..Len(batches[b].documents) }
                      = { events[i].uid : i \in EventsOf(b) }
                /\ tasks[t].popAt >= LastArrival(b) + MEDIA_GROUP_WAIT_SECONDS

----------------------------------------------------------------------------
(* TenderSummarizer._split_text                                             *)
(* A text is a sequence of characters.                                      *)

MaxTextLen == 6         \* characters of a text given to _split_text
MaxChunkSize == 4       \* largest chunk_size tried
MaxChunkOverlap == 3    \* largest chunk_overlap given to __init__

Letters == {"a", "b", "c"}

TextsUpTo(alphabet, n) == UNION { [1..m -> alphabet] : m \in 1..n }

\* Mutant of ClampOverlap: the overlap is taken as configured.
ClampOverlapNone(chunk_size, chunk_overlap) == chunk_overlap

\* __init__, line 23: min(chunk_overlap, max(0, chunk_size // 2))
ClampOverlap(chunk_size, chunk_overlap) ==
    Min(chunk_overlap, Max(0, chunk_size \div 2))

\* Line 53: end = min(len(text), start + self.chunk_size)
WindowEnd(length, start, chunk_size) == Min(length, start + chunk_size)

\* Mutant of NextStart: the overlap is forgotten.
NextStartNoOverlap(end, chunk_overlap) == end

\* Mutant of NextStart: the next window starts one character late.
NextStartSkips(end, chunk_overlap) == Max(0, end - chunk_overlap + 1)

\* Line 57: start = max(0, end - self.chunk_overlap)
NextStart(end, chunk_overlap) == Max(0, end - chunk_overlap)

\* The loop of lines 51-57: the windows text[start:end] it yields.
RECURSIVE SplitWindows(_, _, _, _)
SplitWindows(length, start, chunk_size, chunk_overlap) ==
    IF ~(start < length) THEN <<>>
    ELSE LET end == WindowEnd(length, start, chunk_size)
         IN  IF end >= length
             THEN << [start |-> start, end |-> end] >>
             ELSE << [start |-> start, end |-> end] >>
                  \o SplitWindows(length, NextStart(end, chunk_overlap),
                                  chunk_size, chunk_overlap)

\* _split_text: lines 47-49, else the loop.
Windows(text, chunk_size, chunk_overlap) ==
    IF Len(text) <= chunk_size
    THEN << [start |-> 0, end |-> Len(text)] >>
    ELSE SplitWindows(Len(text), 0, chunk_size, chunk_overlap)

\* text[start:end]
Slice(text, start, end) == SubSeq(text, start + 1, end)

SplitText(text, chunk_size, chunk_overlap) ==
    LET w == Windows(text, chunk_size, chunk_overlap)
    IN  [i \in 1..Len(w) |-> Slice(text, w[i].start, w[i].end)]

\* A call list(self._split_text(text)) on a summarizer made by __init__.
SplitCall ==
    /\ splitRun.fn = "_split_text"
    /\ ~splitRun.done
    /\ splitRun' = [splitRun EXCEPT
            !.done = TRUE,
            !.windows = Windows(splitRun.text, splitRun.chunk_size, splitRun.chunk_overlap),
            !.chunks = SplitText(splitRun.text, splitRun.chunk_size, splitRun.chunk_overlap)]
    /\ UNCHANGED <<now, batchVars, textVars, summarizer, accessVars>>

InitSplit ==
    /\ now = 0
    /\ events = <<>>
    /\ batches = <<>>
    /\ pending_media_groups = [k \in Keys |-> 0]
    /\ lockOwner = 0
    /\ lockWaiters = <<>>
    /\ tasks = <<>>
    /\ recent_chat_texts = [k \in TextKeys |-> <<>>]
    /\ found = NoFind
    /\ nstored = 0
    /\ summarizer = NoSummarizer
    /\ NoAccess
    /\ \E text \in TextsUpTo(Letters, MaxTextLen), cs \in 1..MaxChunkSize,
          co \in 0..MaxChunkOverlap :
           splitRun = [fn |-> "_split_text", text |-> text, chunk_size |-> cs,
                       chunk_overlap |-> ClampOverlap(cs, co), done |-> FALSE,
                       windows |-> <<>>, chunks |-> <<>>]

NextSplit == SplitCall

SpecSplit == InitSplit /\ [][NextSplit]_vars

\* C11: _split_text yields one chunk, the text, exactly when the text is no
\* longer than chunk_size; otherwise every chunk but the last has chunk_size
\* characters, each window starts chunk_size - chunk_overlap after the one
\* before, the first starts at 0, the last ends at the end of the text, and
\* no chunk is empty.
C11_SplitShape ==
    splitRun.fn = "_split_text" /\ splitRun.done =>
        LET text == splitRun.text
            w == splitRun.windows
            chunks == splitRun.chunks
            n == Len(chunks)
        IN  /\ n >= 1
            /\ (n = 1) <=> (Len(text) <= splitRun.chunk_size)
            /\ n = 1 => chunks[1] = text
            /\ Len(w) = n
            /\ w[1].start = 0
            /\ w[n].end = Len(text)
            /\ \A i \in 1..n :
                  /\ chunks[i] # <<>>
                  /\ chunks[i] = Slice(text, w[i].start, w[i].end)
                  /\ Len(chunks[i]) = w[i].end - w[i].start
                  /\ Len(chunks[i]) <= splitRun.chunk_size
            /\ \A i \in 1..(n - 1) :
                  /\ Len(chunks[i]) = splitRun.chunk_size
                  /\ w[i + 1].start =
                        w[i].start + splitRun.chunk_size - splitRun.chunk_overlap

\* C11 witness: a text of 6 characters split with chunk_size 3 and overlap 1
\* into three chunks, the last one shorter.
C11_Witness ==
    /\ splitRun.fn = "_split_text" /\ splitRun.done
    /\ Len(splitRun.text) = 6
    /\ splitRun.chunk_size = 3
    /\ splitRun.chunk_overlap = 1
    /\ Len(splitRun.chunks) = 3
    /\ Len(splitRun.chunks[3]) = 2

\* The chunk with its first k characters removed.
DropFirst(chunk, k) == SubSeq(chunk, k + 1, Len(chunk))

RECURSIVE Reassemble(_, _)
Reassemble(chunks, k) ==
    IF Len(chunks) = 0 THEN <<>>
    ELSE IF Len(chunks) = 1 THEN chunks[1]
    ELSE Reassemble(SubSeq(chunks, 1, Len(chunks) - 1), k)
         \o DropFirst(chunks[Len(chunks)], k)

\* C12: the last chunk_overlap characters of every chunk are the first
\* chunk_overlap characters of the next one, and the first chunk followed by
\* the later chunks without their first chunk_overlap characters is the text.
C12_SplitReconstruction ==
    splitRun.fn = "_split_text" /\ splitRun.done =>
        LET chunks == splitRun.chunks
            k == splitRun.chunk_overlap
        IN  /\ \A i \in 1..(Len(chunks) - 1) :
                  /\ Len(chunks[i]) >= k
                  /\ Len(chunks[i + 1]) >= k
                  /\ SubSeq(chunks[i], Len(chunks[i]) - k + 1, Len(chunks[i]))
                        = SubSeq(chunks[i + 1], 1, k)
            /\ Reassemble(chunks, k) = splitRun.text

\* C12 witness: the text abcabc split with chunk_size 4 and overlap 2: abca,
\* cabc.
C12_Witness ==
    /\ splitRun.fn = "_split_text" /\ splitRun.done
    /\ splitRun.text = <<"a", "b", "c", "a", "b", "c">>
    /\ splitRun.chunk_size = 4
    /\ splitRun.chunk_overlap = 2
    /\ splitRun.chunks = << <<"a", "b", "c", "a">>, <<"c", "a", "b", "c">> >>

----------------------------------------------------------------------------
(* TenderSummarizer.summarize                                               *)

MaxInputLen == 5        \* characters of a text given to summarize

\* Characters of the input: a letter, a blank and a line break.
InputChars == {"a", " ", "\n"}
Whitespace == {" ", "\n"}

\* The fixed texts of lines 28 and 147, one character each.
NO_TEXT == <<"<no text could be extracted from the file>">>
FALLBACK == <<"<no summary could be made>">>

\* What the backend can answer: no content (None or ""), or a text.
Responses == {<<>>, <<"x">>}
FileNames == {None, "doc"}

\* Mutant of Strip: the line is taken as it is.
StripNothing(line) == line

\* str.strip()
RECURSIVE Strip(_)
Strip(line) ==
    IF line = <<>> THEN <<>>
    ELSE IF Head(line) \in Whitespace THEN Strip(Tail(line))
    ELSE IF line[Len(line)] \in Whitespace THEN Strip(SubSeq(line, 1, Len(line) - 1))
    ELSE line

\* str.splitlines(): the lines of the text, without their line breaks.
RECURSIVE SplitLines(_)
SplitLines(text) ==
    IF text = <<>> THEN <<>>
    ELSE LET breaks == { j \in 1..Len(text) : text[j] = "\n" }
         IN  IF breaks = {} THEN <<text>>
             ELSE LET j == CHOOSE j \in breaks : \A m \in breaks : j <= m
                  IN  <<SubSeq(text, 1, j - 1)>>
                      \o SplitLines(SubSeq(text, j + 1, Len(text)))

\* sep.join(items)
RECURSIVE JoinWith(_, _)
JoinWith(items, sep) ==
    IF items = <<>> THEN <<>>
    ELSE IF Len(items) = 1 THEN items[1]
    ELSE items[1] \o sep \o JoinWith(Tail(items), sep)

\* Line 26: "\n".join(line.strip() for line in text.splitlines() if line.strip())
Normalize(text) ==
    LET lines == SplitLines(text)
        kept == SelectSeq(lines, LAMBDA line : Strip(line) # <<>>)
    IN  JoinWith([i \in 1..Len(kept) |-> Strip(kept[i])], <<"\n">>)

\* Mutant of Truncate: the text is not cut.
TruncateNothing(normalized, max_doc_chars) == normalized

\* Lines 30-31: normalized[: self.max_doc_chars]
Truncate(normalized, max_doc_chars) ==
    IF Len(normalized) > max_doc_chars
    THEN SubSeq(normalized, 1, max_doc_chars)
    ELSE normalized

\* Mutant of ContentOr: the content is returned as it came.
ContentOrRaw(content) == content

\* Line 147: completion.choices[0].message.content or "<fallback>"
ContentOr(content) == IF content = <<>> THEN FALLBACK ELSE content

\* Mutant of Combined: only the last partial is kept.
CombinedLast(partials) == partials[Len(partials)]

\* Line 43: "\n\n".join(partials)
Combined(partials) == JoinWith(partials, <<"\n", "\n">>)

\* Line 92: the title of the final summary.
Title(file_name) ==
    IF file_name = None THEN <<>> ELSE <<"File: doc", "\n", "\n">>

\* _chunk_summary(chunk, idx, total) -> _ask_llm: the request it sends.
PartialCall(chunk, idx, total) ==
    [kind |-> "partial", idx |-> idx, total |-> total, content |-> chunk]

\* _final_summary(content, file_name) -> _ask_llm: the request it sends.
FinalCall(content) ==
    [kind |-> "final", idx |-> 0, total |-> 0, content |-> content]

\* Mutant of OnBackendError: the request is sent again.
OnBackendErrorRetry(s) ==
    [s EXCEPT !.calls = Append(@, s.calls[Len(s.calls)])]

\* An exception of client.chat.completions.create leaves _ask_llm, the loop
\* of lines 39-41 and summarize: nothing catches it.
OnBackendError(s) ==
    [s EXCEPT !.pc = "raised", !.result = None]

\* summarize(text, file_name) up to its first await: lines 26-36, 38-40.
SummarizeStart(text, file_name) ==
    /\ summarizer.pc = "idle"
    /\ LET normalized == Normalize(text)
           truncated == Truncate(normalized, summarizer.max_doc_chars)
           chunks == SplitText(truncated, summarizer.chunk_size, summarizer.chunk_overlap)
           s == [summarizer EXCEPT !.text = text, !.file_name = file_name,
                                   !.normalized = normalized]
       IN  summarizer' =
             IF normalized = <<>>
             THEN [s EXCEPT !.pc = "returned", !.result = NO_TEXT]
             ELSE IF Len(chunks) = 1
             THEN [s EXCEPT !.pc = "final", !.given = truncated, !.chunks = chunks,
                            !.calls = <<FinalCall(chunks[1])>>]
             ELSE [s EXCEPT !.pc = "partial", !.given = truncated, !.chunks = chunks,
                            !.idx = 1,
                            !.calls = <<PartialCall(chunks[1], 1, Len(chunks))>>]
    /\ UNCHANGED <<now, batchVars, textVars, splitRun, accessVars>>

\* The backend answered the request summarize is waiting for.
BackendReturn(content) ==
    /\ summarizer.pc \in {"partial", "final"}
    /\ LET s == [summarizer EXCEPT !.responses = Append(@, content)]
           partials == Append(summarizer.partials, ContentOr(content))
           n == Len(summarizer.chunks)
       IN  summarizer' =
             IF summarizer.pc = "final"
             THEN [s EXCEPT !.pc = "returned",
                            !.result = Strip(Title(summarizer.file_name)
                                             \o ContentOr(content))]
             ELSE IF summarizer.idx < n
             THEN [s EXCEPT !.partials = partials,
                            !.idx = @ + 1,
                            !.calls = Append(@, PartialCall(summarizer.chunks[summarizer.idx + 1],
                                                           summarizer.idx + 1, n))]
             ELSE [s EXCEPT !.partials = partials,
                            !.pc = "final",
                            !.calls = Append(@, FinalCall(Combined(partials)))]
    /\ UNCHANGED <<now, batchVars, textVars, splitRun, accessVars>>

\* The request summarize is waiting for failed.
BackendRaise ==
    /\ summarizer.pc \in {"partial", "final"}
    /\ summarizer' = OnBackendError([summarizer EXCEPT !.failedAt = Len(summarizer.calls)])
    /\ UNCHANGED <<now, batchVars, textVars, splitRun, accessVars>>

SumChunkSizes == {2, 3}
SumDocChars == {1, 4, 8}

InitSummarize ==
    /\ now = 0
    /\ events = <<>>
    /\ batches = <<>>
    /\ pending_media_groups = [k \in Keys |-> 0]
    /\ lockOwner = 0
    /\ lockWaiters = <<>>
    /\ tasks = <<>>
    /\ recent_chat_texts = [k \in TextKeys |-> <<>>]
    /\ found = NoFind
    /\ nstored = 0
    /\ splitRun = NoSplit
    /\ NoAccess
    /\ \E cs \in SumChunkSizes, co \in {0, 1}, mdc \in SumDocChars :
           summarizer = [pc |-> "idle", chunk_size |-> cs,
                         chunk_overlap |-> ClampOverlap(cs, co), max_doc_chars |-> mdc,
                         text |-> <<>>, file_name |-> None, normalized |-> <<>>,
                         given |-> <<>>, chunks |-> <<>>, idx |-> 0,
                         partials |-> <<>>, calls |-> <<>>, responses |-> <<>>,
                         failedAt |-> 0, result |-> None]

NextSummarize ==
    \/ \E text \in TextsUpTo(InputChars, MaxInputLen) \cup {<<>>}, f \in FileNames :
           SummarizeStart(text, f)
    \/ \E content \in Responses : BackendReturn(content)
    \/ BackendRaise

SpecSummarize == InitSummarize /\ [][NextSummarize]_vars

----------------------------------------------------------------------------
(* Properties of summarize *)

\* A summarize call got past the empty-text return of lines 27-28.
Summarizing == summarizer.pc \in {"partial", "final", "returned", "raised"}
                  /\ summarizer.normalized # <<>>

\* C13: with one chunk summarize sends one final request over it and no
\* partial request; with n > 1 chunks it sends n partial requests, the i-th
\* for chunk i with index i and total n, then one final request whose content
\* is the n partial results joined by a blank line, and nothing else; a
\* request is sent only when every earlier one was answered.
C13_CallProtocol ==
    /\ [](Summarizing =>
            LET n == Len(summarizer.chunks)
                calls == summarizer.calls
                partials == summarizer.partials
            IN  /\ n >= 1
                /\ Len(calls) >= 1
                /\ Len(summarizer.responses) \in {Len(calls) - 1, Len(calls)}
                /\ n = 1 => /\ Len(calls) = 1
                            /\ calls[1].kind = "final"
                            /\ calls[1].content = summarizer.chunks[1]
                /\ n > 1 =>
                      /\ Len(calls) <= n + 1
                      /\ \A j \in 1..Len(calls) :
                            j <= n => /\ calls[j].kind = "partial"
                                      /\ calls[j].idx = j
                                      /\ calls[j].total = n
                                      /\ calls[j].content = summarizer.chunks[j]
                      /\ Len(calls) = n + 1 =>
                            /\ calls[n + 1].kind = "final"
                            /\ Len(partials) = n
                            /\ \A j \in 1..n :
                                  partials[j] \in {summarizer.responses[j], FALLBACK}
                            /\ calls[n + 1].content = JoinWith(partials, <<"\n", "\n">>)
                /\ summarizer.pc = "returned" =>
                      /\ Len(calls) = IF n = 1 THEN 1 ELSE n + 1
                      /\ Len(summarizer.responses) = Len(calls))
    /\ [][ Len(summarizer'.calls) # Len(summarizer.calls) =>
              /\ Len(summarizer'.calls) = Len(summarizer.calls) + 1
              /\ Len(summarizer'.responses) = Len(summarizer.calls) ]_vars

\* C13 witness: five characters with chunk_size 2 and no overlap: three
\* partial requests, then the final one, all answered.
C13_Witness ==
    /\ summarizer.pc = "returned"
    /\ Len(summarizer.given) = 5
    /\ summarizer.chunk_size = 2
    /\ summarizer.chunk_overlap = 0
    /\ Len(summarizer.calls) = 4
    /\ \A j \in 1..3 : summarizer.calls[j].kind = "partial"
    /\ summarizer.calls[4].kind = "final"
    /\ summarizer.responses[1] # summarizer.responses[2]

\* C14: for a text that is empty or has only blanks and line breaks, with or
\* without a file name, summarize returns the fixed no-text result and sends
\* no request.
C14_EmptyInput ==
    /\ summarizer.pc \notin {"none", "idle"}
    /\ \A j \in 1..Len(summarizer.text) : summarizer.text[j] \in Whitespace
    => /\ summarizer.pc = "returned"
       /\ summarizer.result = NO_TEXT
       /\ summarizer.calls = <<>>

\* C14 witness: blanks and a line break, with a file name.
C14_Witness ==
    /\ summarizer.pc = "returned"
    /\ summarizer.text = <<" ", "\n", " ">>
    /\ summarizer.file_name = "doc"
    /\ summarizer.result = NO_TEXT
    /\ summarizer.calls = <<>>

\* C15: no request is sent twice; when the j-th request fails, summarize ends
\* with that failure, the j-th request is the last one sent, and no text is
\* returned.
C15_FailFast ==
    /\ summarizer.pc \notin {"none", "idle"} =>
          /\ \A i, j \in 1..Len(summarizer.calls) :
                i # j => summarizer.calls[i] # summarizer.calls[j]
          /\ summarizer.failedAt # 0 =>
                /\ summarizer.pc = "raised"
                /\ Len(summarizer.calls) = summarizer.failedAt
                /\ Len(summarizer.responses) = summarizer.failedAt - 1
                /\ summarizer.result = None
          /\ summarizer.pc = "raised" => summarizer.failedAt # 0

\* C15 witness: the second of three partial requests failed.
C15_Witness ==
    /\ summarizer.pc = "raised"
    /\ Len(summarizer.chunks) = 3
    /\ summarizer.failedAt = 2
    /\ Len(summarizer.calls) = 2
    /\ Len(summarizer.partials) = 1

----------------------------------------------------------------------------
(* Exception texts and what the chat is shown *)

\* failed_files of the run of build_combined_summary on the same documents
\* with the same extractions failing, every exception carrying the text msg.
RECURSIVE FailedWith(_, _, _)
FailedWith(docs, outcomes, msg) ==
    IF outcomes = <<>> THEN <<>>
    ELSE LET k == Len(outcomes)
             before == FailedWith(docs, SubSeq(outcomes, 1, k - 1), msg)
         IN  IF outcomes[k].n = 0 THEN NoteFailure(before, docs[k], msg)
             ELSE before

\* C16 (as claimed): what is sent to the chat does not depend on the text of
\* an exception: the summary text sent by a finalization, addendum included,
\* is the one sent by the run that differs only in the texts its extraction
\* exceptions carry, whatever these are.
C16_NoExceptionText ==
    \A t \in 1..Len(tasks) :
        tasks[t].batch # 0 /\ tasks[t].sent > 0 =>
            \A msg \in Reasons :
                tasks[t].summary =
                    WithAddendum(tasks[t].summary.summary,
                                 FailedWith(DocsOf(t), tasks[t].outcomes, msg))

----------------------------------------------------------------------------
(* split_for_telegram                                                       *)

MaxReplyLen == 6        \* characters of a text given to split_for_telegram
MaxLimit == 3           \* largest limit tried

\* str.split("\n")
RECURSIVE SplitNewline(_)
SplitNewline(text) ==
    LET breaks == { j \in 1..Len(text) : text[j] = "\n" }
    IN  IF breaks = {} THEN <<text>>
        ELSE LET j == CHOOSE j \in breaks : \A m \in breaks : j <= m
             IN  <<SubSeq(text, 1, j - 1)>>
                 \o SplitNewline(SubSeq(text, j + 1, Len(text)))

\* Lines 577-578: [line[i : i + limit] for i in range(0, len(line), limit)]
RECURSIVE HardSplit(_, _)
HardSplit(line, limit) ==
    IF Len(line) = 0 THEN <<>>
    ELSE <<SubSeq(line, 1, Min(limit, Len(line)))>>
         \o HardSplit(SubSeq(line, Min(limit, Len(line)) + 1, Len(line)), limit)

\* "\n".join(current).strip()
Flush(current) == Strip(JoinWith(current, <<"\n">>))

\* One turn of the loop of lines 565-582 for the paragraph, on the state
\* (parts, current, current_len).
SplitStep(st, paragraph, limit) ==
    LET line == Strip(paragraph)
        candidate_len == st.current_len + Len(line) + 1
    IN  IF candidate_len > limit /\ st.current # <<>>
        THEN [parts |-> Append(st.parts, Flush(st.current)),
              current |-> <<line>>, current_len |-> Len(line)]
        ELSE IF Len(line) > limit
        THEN [parts |-> (IF st.current # <<>> THEN Append(st.parts, Flush(st.current))
                         ELSE st.parts) \o HardSplit(line, limit),
              current |-> IF st.current # <<>> THEN <<>> ELSE st.current,
              current_len |-> IF st.current # <<>> THEN 0 ELSE st.current_len]
        ELSE [parts |-> st.parts, current |-> Append(st.current, line),
              current_len |-> candidate_len]

RECURSIVE SplitLoop(_, _, _)
SplitLoop(st, paragraphs, limit) ==
    IF paragraphs = <<>> THEN st
    ELSE SplitLoop(SplitStep(st, Head(paragraphs), limit), Tail(paragraphs), limit)

\* split_for_telegram(text, limit)
split_for_telegram(text, limit) ==
    LET stripped == Strip(text)
    IN  IF Len(stripped) <= limit THEN <<stripped>>
        ELSE LET st == SplitLoop([parts |-> <<>>, current |-> <<>>, current_len |-> 0],
                                 SplitNewline(stripped), limit)
                 parts == IF st.current # <<>> THEN Append(st.parts, Flush(st.current))
                          ELSE st.parts
             IN  SelectSeq(parts, LAMBDA part : part # <<>>)

\* for part in split_for_telegram(formatted_summary)
ReplyCall ==
    /\ splitRun.fn = "split_for_telegram"
    /\ ~splitRun.done
    /\ splitRun' = [splitRun EXCEPT
            !.done = TRUE,
            !.parts = split_for_telegram(splitRun.text, splitRun.limit)]
    /\ UNCHANGED <<now, batchVars, textVars, summarizer, accessVars>>

\* The texts split: summaries, which are not blank.
InitReply ==
    /\ now = 0
    /\ events = <<>>
    /\ batches = <<>>
    /\ pending_media_groups = [k \in Keys |-> 0]
    /\ lockOwner = 0
    /\ lockWaiters = <<>>
    /\ tasks = <<>>
    /\ recent_chat_texts = [k \in TextKeys |-> <<>>]
    /\ found = NoFind
    /\ nstored = 0
    /\ summarizer = NoSummarizer
    /\ NoAccess
    /\ \E text \in TextsUpTo(InputChars, MaxReplyLen), limit \in 1..MaxLimit :
           /\ Strip(text) # <<>>
           /\ splitRun = [fn |-> "split_for_telegram", text |-> text,
                          limit |-> limit, done |-> FALSE, parts |-> <<>>]

NextReply == ReplyCall

SpecReply == InitReply /\ [][NextReply]_vars

\* C17 (as claimed): every part split_for_telegram returns is non-empty and
\* no longer than limit, a paragraph longer than limit being cut in pieces of
\* at most limit characters whatever was accumulated before it.
C17_PartsWithinLimit ==
    splitRun.fn = "split_for_telegram" /\ splitRun.done =>
        \A i \in 1..Len(splitRun.parts) :
            /\ splitRun.parts[i] # <<>>
            /\ Len(splitRun.parts[i]) <= splitRun.limit


----------------------------------------------------------------------------
(* Independence of keys *)

\* The key whose handling waits in the lock's queue entry w.
WaiterKey(w) == IF w.kind = "h" THEN events[w.id].key ELSE tasks[w.id].key

\* C18 (as claimed): while the handler of one key is suspended in the
\* acknowledgment send of the key's first arrival, no document arrival and no
\* expired timer of another key has to wait for that send to end.
C18_KeysIndependent ==
    lockOwner # 0 /\ events[lockOwner].pc = "ack" =>
        \A j \in 1..Len(lockWaiters) :
            WaiterKey(lockWaiters[j]) = events[lockOwner].key

\* The same for the expired timers alone.
C18_TimersIndependent ==
    lockOwner # 0 /\ events[lockOwner].pc = "ack" =>
        \A j \in 1..Len(lockWaiters) :
            lockWaiters[j].kind = "t" =>
                tasks[lockWaiters[j].id].key = events[lockOwner].key


----------------------------------------------------------------------------
(* A trickle of documents of one album *)

MaxTrickle == 4         \* documents of the album that arrive
MaxTrickleTime == 4     \* the clock stops here

\* The file_unique_id of the n-th document of the album: each one is new.
TrickleUid(n) ==
    CASE n = 1 -> "f1" [] n = 2 -> "f2" [] n = 3 -> "f3" [] OTHER -> "f4"

\* The next document of album g1, with a file_unique_id no earlier event
\* carried.
TrickleArrive(u) ==
    /\ Len(events) < MaxTrickle
    /\ u = TrickleUid(Len(events) + 1)
    /\ \A j \in 1..Len(events) : events[j].uid # u
    /\ Deliver("g1", u, Len(events) + 1, "u1")

TrickleTick ==
    /\ now < MaxTrickleTime
    /\ now' = now + 1
    /\ UNCHANGED <<batchVars, textVars, sumVars, accessVars>>

NextTrickle ==
    \/ \E u \in DocUids : TrickleArrive(u)
    \/ \E i \in 1..Len(events) : HandlerLockGranted(i)
    \/ \E i \in 1..Len(events), ok \in BOOLEAN : AckReturn(i, ok)
    \/ \E t \in 1..Len(tasks) : TaskStart(t)
    \/ \E t \in 1..Len(tasks) : TimerExpire(t)
    \/ \E t \in 1..Len(tasks) : TaskResume(t)
    \/ \E t \in 1..Len(tasks) : TaskLockGranted(t)
    \/ \E t \in 1..Len(tasks) : DeliverCancel(t)
    \/ TrickleTick

SpecTrickle == Init /\ [][NextTrickle]_vars

\* Documents have arrived, each less than the debounce interval after the one
\* before it, and the last of them less than the interval ago.
Trickling ==
    /\ events # <<>>
    /\ \A j \in 2..Len(events) :
           events[j].arrive - events[j - 1].arrive < MEDIA_GROUP_WAIT_SECONDS
    /\ now - events[Len(events)].arrive < MEDIA_GROUP_WAIT_SECONDS

\* C20: while documents with fresh uniqueIds keep arriving for a key with
\* every gap shorter than the debounce interval, no finalization of the key
\* has run its pop and the key, once mapped, stays in the batch map, however
\* many documents have arrived and however long the collection has lasted.
C20_UnboundedDeferral ==
    Trickling =>
        /\ \A t \in 1..Len(tasks) : tasks[t].pops = 0
        /\ (\E i \in 1..Len(events) : events[i].created) =>
               pending_media_groups["g1"] # 0

\* MaxTrickle documents have arrived one second apart and were appended, and
\* the batch is still collected twice the debounce interval after the first.
C20_Witness ==
    /\ Trickling
    /\ Len(events) = MaxTrickle
    /\ \A i \in 1..Len(events) : events[i].appended
    /\ now >= events[1].arrive + 2 * MEDIA_GROUP_WAIT_SECONDS
    /\ pending_media_groups["g1"] # 0
    /\ Len(batches[pending_media_groups["g1"]].documents) = MaxTrickle
    /\ tasks[batches[pending_media_groups["g1"]].task].pc = "sleeping"


----------------------------------------------------------------------------
(* Liveness after quiet *)

\* What the finalization task t has shown in the chat: the whole summary, or
\* a failure notice in place of the status message.
SummaryEmitted(t) == tasks[t].nparts > 0 /\ tasks[t].sent = tasks[t].nparts
NoticeEmitted(t) == tasks[t].status \in {"notice_extraction", "notice_generic"}

\* C19 (as claimed): a finalization that has popped its batch ends with a
\* terminal outcome emitted, the summary or a failure notice; stated on the
\* final position of the task, after which it emits nothing more.
C19_OutcomeEmitted ==
    \A t \in 1..Len(tasks) :
        tasks[t].batch # 0 /\ TaskDone(tasks[t]) =>
            SummaryEmitted(t) \/ NoticeEmitted(t)

\* The same for the finalizations whose status message was deleted before a
\* send_message raised.
OutcomeAfterDelete ==
    \A t \in 1..Len(tasks) :
        tasks[t].batch # 0 /\ TaskDone(tasks[t]) /\ tasks[t].status = "deleted" =>
            SummaryEmitted(t)


\* The batch collector with a clock that runs as long as a timer is pending,
\* under weak fairness of the timers, of the steps of every task and handler
\* and of the acknowledgment's return.
MaxLiveEvents == 3      \* document events of a behaviour of SpecLive

LiveArrive(k, u, m, usr) ==
    /\ Len(events) < MaxLiveEvents
    /\ Deliver(k, u, m, usr)

LiveTick ==
    /\ \E t \in 1..Len(tasks) : tasks[t].pc = "sleeping" /\ now < tasks[t].deadline
    /\ now' = now + 1
    /\ UNCHANGED <<batchVars, textVars, sumVars, accessVars>>

TaskStep(t) ==
    /\ t \in 1..Len(tasks)
    /\ \/ TaskStart(t)
       \/ TimerExpire(t)
       \/ TaskResume(t)
       \/ TaskLockGranted(t)
       \/ DeliverCancel(t)

HandlerStep(i) ==
    /\ i \in 1..Len(events)
    /\ \/ HandlerLockGranted(i)
       \/ \E ok \in BOOLEAN : AckReturn(i, ok)

NextLive ==
    \/ \E d \in DocEvents : LiveArrive(d.key, d.uid, d.mid, d.user)
    \/ \E i \in 1..MaxLiveEvents : HandlerStep(i)
    \/ \E t \in 1..MaxLiveEvents : TaskStep(t)
    \/ LiveTick

SpecLive ==
    /\ Init
    /\ [][NextLive]_vars
    /\ WF_vars(LiveTick)
    /\ \A i \in 1..MaxLiveEvents : WF_vars(HandlerStep(i))
    /\ \A t \in 1..MaxLiveEvents : WF_vars(TaskStep(t))

\* Once the documents of a key stop arriving, its batch is popped and the key
\* leaves the batch map: the part of the liveness that needs no transport
\* call of the finalization to succeed.
QuietIsFinalized ==
    \A k \in Keys : (pending_media_groups[k] # 0) ~> (pending_media_groups[k] = 0)

EveryBatchIsPopped ==
    \A b \in 1..MaxLiveEvents :
        (b <= Len(batches)) ~> (\E t \in 1..Len(tasks) : tasks[t].batch = b)


----------------------------------------------------------------------------
(* An album and the text messages around it *)

MaxContextStores == 2   \* text messages stored in a behaviour of SpecContext
MaxContextEvents == 2   \* document events of a behaviour of SpecContext

\* The document events of album g1 in chat c1: a file sent twice, the second
\* time in the message with the smaller message_id, and a second file.
ContextEvents ==
    { [uid |-> "f1", mid |-> 4, user |-> None],
      [uid |-> "f1", mid |-> 2, user |-> "u1"],
      [uid |-> "f2", mid |-> 5, user |-> "u1"] }

\* The text messages: who wrote them, in which chat, with which message_id.
ContextKeys == {<<"c1", "u1">>, <<"c1", "u2">>, <<"c2", "u1">>}
ContextMids == {1, 3}

\* The text of the message message_id that user wrote in chat: every message
\* has a text of its own.
ContextText(chat, user, mid) ==
    CASE chat = "c1" /\ user = "u1" /\ mid = 1 -> "c1 u1 1"
      [] chat = "c1" /\ user = "u1" -> "c1 u1 3"
      [] chat = "c1" /\ user = "u2" /\ mid = 1 -> "c1 u2 1"
      [] chat = "c1" /\ user = "u2" -> "c1 u2 3"
      [] chat = "c2" /\ mid = 1 -> "c2 u1 1"
      [] OTHER -> "c2 u1 3"

ContextArrive(d) ==
    /\ Len(events) < MaxContextEvents
    /\ Deliver("g1", d.uid, d.mid, d.user)

NextContext ==
    \/ \E d \in ContextEvents : ContextArrive(d)
    \/ \E i \in 1..Len(events) : HandlerLockGranted(i)
    \/ \E i \in 1..Len(events), ok \in BOOLEAN : AckReturn(i, ok)
    \/ \E t \in 1..Len(tasks) : TaskStart(t)
    \/ \E t \in 1..Len(tasks) : TimerExpire(t)
    \/ \E t \in 1..Len(tasks) : TaskResume(t)
    \/ \E t \in 1..Len(tasks) : TaskLockGranted(t)
    \/ \E t \in 1..Len(tasks) : DeliverCancel(t)
    \/ \E t \in 1..Len(tasks), ok \in BOOLEAN : EditReturn(t, ok)
    \/ /\ nstored < MaxContextStores
       /\ \E k \in ContextKeys, m \in ContextMids :
              StoreText(k[1], k[2], m, ContextText(k[1], k[2], m), now)
    \/ Tick

SpecContext == Init /\ [][NextContext]_vars

\* The smallest message_id of the events handled on the PendingMediaGroup b.
MinMessageId(b) ==
    CHOOSE m \in { events[i].mid : i \in EventsOf(b) } :
        \A i \in EventsOf(b) : m <= events[i].mid

\* C21: first_message_id of a PendingMediaGroup is the smallest message_id of
\* the events handled on it, the ones whose document was a duplicate
\* included; the context text a finalization attaches is the text of a
\* message of the batch's chat_id and source_user_id whose message_id is
\* below first_message_id, never a text of another user or chat or of a
\* message at or after first_message_id.
C21_ContextBounding ==
    /\ \A b \in 1..Len(batches) :
          EventsOf(b) # {} => batches[b].first_message_id = MinMessageId(b)
    /\ \A t \in 1..Len(tasks) :
          tasks[t].batch # 0 /\ tasks[t].context # None =>
              LET p == batches[tasks[t].batch]
              IN  /\ p.source_user_id # None
                  /\ p.first_message_id = MinMessageId(tasks[t].batch)
                  /\ \E m \in ContextMids :
                        /\ m < p.first_message_id
                        /\ tasks[t].context =
                              ContextText(p.chat_id, p.source_user_id, m)

\* C21 witness: the file sent in message 4 came again in message 2, so the
\* batch was finalized with first_message_id 2; the user's messages 1 and 3
\* were in the buffer and the text of message 1 was attached.
C21_Witness ==
    \E t \in 1..Len(tasks) :
        /\ tasks[t].batch # 0
        /\ tasks[t].context = ContextText("c1", "u1", 1)
        /\ batches[tasks[t].batch].first_message_id = 2
        /\ Len(batches[tasks[t].batch].documents) = 1
        /\ \E i, j \in EventsOf(tasks[t].batch) :
              i < j /\ events[i].mid = 4 /\ events[j].mid = 2 /\ ~events[j].appended
        /\ \E j \in 1..Len(recent_chat_texts[<<"c1", "u1">>]) :
              recent_chat_texts[<<"c1", "u1">>][j].message_id = 3


----------------------------------------------------------------------------
(* _split_text, one iteration of its loop at a time *)

\* The generator of lines 46-57 as list() drives it: at "entry" the test of
\* line 47, then one turn of the while loop per step.  The guard on the
\* number of chunks keeps a loop that does not advance finite.
SplitIterate ==
    /\ splitRun.fn = "_split_text loop"
    /\ splitRun.pc # "done"
    /\ Len(splitRun.chunks) <= MaxTextLen
    /\ LET text == splitRun.text
           start == splitRun.start
           end == WindowEnd(Len(text), start, splitRun.chunk_size)
       IN  splitRun' =
             IF splitRun.pc = "entry"
             THEN IF Len(text) <= splitRun.chunk_size
                  THEN [splitRun EXCEPT !.chunks = <<text>>, !.pc = "done"]
                  ELSE [splitRun EXCEPT !.start = 0, !.pc = "loop"]
             ELSE IF ~(start < Len(text))
             THEN [splitRun EXCEPT !.pc = "done"]
             ELSE IF end >= Len(text)
             THEN [splitRun EXCEPT !.chunks = Append(@, Slice(text, start, end)),
                                   !.pc = "done"]
             ELSE [splitRun EXCEPT !.chunks = Append(@, Slice(text, start, end)),
                                   !.start = NextStart(end, splitRun.chunk_overlap)]
    /\ UNCHANGED <<now, batchVars, textVars, summarizer, accessVars>>

InitSplitLoop ==
    /\ now = 0
    /\ events = <<>>
    /\ batches = <<>>
    /\ pending_media_groups = [k \in Keys |-> 0]
    /\ lockOwner = 0
    /\ lockWaiters = <<>>
    /\ tasks = <<>>
    /\ recent_chat_texts = [k \in TextKeys |-> <<>>]
    /\ found = NoFind
    /\ nstored = 0
    /\ summarizer = NoSummarizer
    /\ NoAccess
    /\ \E text \in TextsUpTo(Letters, MaxTextLen), cs \in 1..MaxChunkSize,
          co \in 0..MaxChunkOverlap :
           splitRun = [fn |-> "_split_text loop", text |-> text, chunk_size |-> cs,
                       chunk_overlap |-> ClampOverlap(cs, co), pc |-> "entry",
                       start |-> 0, chunks |-> <<>>]

NextSplitLoop == SplitIterate

\* list() runs the generator until it is exhausted.
SpecSplitLoop == InitSplitLoop /\ [][NextSplitLoop]_vars /\ WF_vars(SplitIterate)

\* C22: _split_text terminates: every turn of the loop that does not end it
\* moves the window start forward by chunk_size - chunk_overlap, which the
\* clamp of __init__ keeps at 1 or more; it yields no more chunks than the
\* text has characters, and the call ends, with the chunks of SplitText.
C22_Termination ==
    /\ [][ splitRun.pc = "loop" /\ splitRun'.pc = "loop" =>
             /\ splitRun'.start = splitRun.start + splitRun.chunk_size
                                     - splitRun.chunk_overlap
             /\ splitRun'.start >= splitRun.start + 1 ]_vars
    /\ [](Len(splitRun.chunks) <= Len(splitRun.text))
    /\ [](splitRun.pc = "done" =>
             splitRun.chunks = SplitText(splitRun.text, splitRun.chunk_size,
                                         splitRun.chunk_overlap))
    /\ <>(splitRun.pc = "done")

\* C22 witness: a text of 6 characters, chunk_size 2 and a configured overlap
\* of 3 clamped to 1: the loop ended after five turns.
C22_Witness ==
    /\ splitRun.fn = "_split_text loop"
    /\ splitRun.pc = "done"
    /\ Len(splitRun.text) = 6
    /\ splitRun.chunk_size = 2
    /\ splitRun.chunk_overlap = 1
    /\ Len(splitRun.chunks) = 5


----------------------------------------------------------------------------
(* The character budget of summarize *)

\* ceil(a / b) for b > 0.
CeilDiv(a, b) == -((-a) \div b)

\* The requests of kind "partial" among the ones sent.
PartialCalls == SelectSeq(summarizer.calls, LAMBDA c : c.kind = "partial")

\* chunk is text[start:end] for some start and end.
IsSubstring(chunk, text) ==
    \E start \in 0..Len(text), end \in 0..Len(text) :
        start <= end /\ chunk = Slice(text, start, end)

\* C23: the text summarize splits is the normalized text cut to its first
\* max_doc_chars characters, so it is no longer than max_doc_chars; every
\* chunk, and the content of every partial request and of the final request
\* of a single chunk, is a substring of it; and summarize sends at most
\* ceil((max_doc_chars - chunk_size) / (chunk_size - chunk_overlap)) + 1
\* partial requests.
C23_CharacterBudget ==
    Summarizing =>
        LET budget == summarizer.max_doc_chars
            first == SubSeq(summarizer.normalized, 1,
                            Min(budget, Len(summarizer.normalized)))
            step == summarizer.chunk_size - summarizer.chunk_overlap
        IN  /\ summarizer.given = first
            /\ Len(summarizer.given) <= budget
            /\ \A i \in 1..Len(summarizer.chunks) :
                  IsSubstring(summarizer.chunks[i], first)
            /\ \A j \in 1..Len(PartialCalls) :
                  IsSubstring(PartialCalls[j].content, first)
            /\ Len(summarizer.chunks) = 1 =>
                  IsSubstring(summarizer.calls[1].content, first)
            /\ step >= 1
            /\ Len(PartialCalls) <= CeilDiv(budget - summarizer.chunk_size, step) + 1

\* C23 witness: five normalized characters and a budget of four: the fifth is
\* dropped, and with chunk_size 2 and no overlap the two partial requests the
\* bound allows were sent.
C23_Witness ==
    /\ summarizer.pc = "returned"
    /\ Len(summarizer.normalized) = 5
    /\ summarizer.max_doc_chars = 4
    /\ Len(summarizer.given) = 4
    /\ summarizer.chunk_size = 2
    /\ summarizer.chunk_overlap = 0
    /\ Len(PartialCalls) = 2


----------------------------------------------------------------------------
(* An album from its first document to its extraction *)

MaxOrderEvents == 3     \* document events of a behaviour of SpecOrder

\* A document of album g1; its file may have come before.
OrderArrive(u) ==
    /\ Len(events) < MaxOrderEvents
    /\ Deliver("g1", u, Len(events) + 1, "u1")

NextOrder ==
    \/ \E u \in {"f1", "f2"} : OrderArrive(u)
    \/ \E i \in 1..Len(events) : HandlerLockGranted(i)
    \/ \E i \in 1..Len(events), ok \in BOOLEAN : AckReturn(i, ok)
    \/ \E t \in 1..Len(tasks) : TaskStart(t)
    \/ \E t \in 1..Len(tasks) : TimerExpire(t)
    \/ \E t \in 1..Len(tasks) : TaskResume(t)
    \/ \E t \in 1..Len(tasks) : TaskLockGranted(t)
    \/ \E t \in 1..Len(tasks) : DeliverCancel(t)
    \/ \E t \in 1..Len(tasks), ok \in BOOLEAN : EditReturn(t, ok)
    \/ \E t \in 1..Len(tasks), n \in 0..2 : ExtractReturn(t, n, "corrupt file")
    \/ Tick

SpecOrder == Init /\ [][NextOrder]_vars

\* The first of the events handled on b that carried the file u.
FirstEvent(b, u) ==
    CHOOSE i \in EventsOf(b) :
        /\ events[i].uid = u
        /\ \A j \in EventsOf(b) : events[j].uid = u => i <= j

\* events is in the order in which the handlers reached line 267.
\* C24: the events of a key are applied (lines 268-294) in the order in which
\* their handlers reached the lock: when one is applied, every earlier one of
\* the key has been applied or has ended in a failed acknowledgment; the
\* documents of a PendingMediaGroup are in the order in which the first
\* events of their files were applied, and extraction takes them in that
\* order.
C24_ArrivalOrder ==
    /\ [][ \A j \in 1..Len(events') :
             LET was == IF j <= Len(events) THEN events[j].pc ELSE "new"
             IN  events'[j].pc \in {"ack", "done"} /\ was \notin {"ack", "done"} =>
                     \A i \in 1..(j - 1) :
                         events[i].key = events'[j].key =>
                             events[i].pc \in {"done", "failed"} ]_vars
    /\ [](\A b \in 1..Len(batches) :
            LET docs == batches[b].documents
            IN  /\ \A k \in 1..Len(docs) :
                      \E i \in EventsOf(b) : events[i].uid = docs[k].file_unique_id
                /\ \A k, l \in 1..Len(docs) :
                      k < l => FirstEvent(b, docs[k].file_unique_id)
                                  < FirstEvent(b, docs[l].file_unique_id))
    /\ [](\A t \in 1..Len(tasks) :
            tasks[t].batch # 0 =>
                /\ Len(tasks[t].outcomes) <= Len(DocsOf(t))
                /\ \A j \in 1..Len(tasks[t].outcomes) :
                      tasks[t].outcomes[j].doc = DocsOf(t)[j].file_unique_id)

\* C24 witness: b.rar, a.docx and b.rar again were handled on one batch, the
\* later two having reached the lock while the first was acknowledged; the
\* batch was finalized and b.rar was extracted first, a.docx second.
C24_Witness ==
    \E t \in 1..Len(tasks) :
        /\ tasks[t].batch # 0
        /\ EventsOf(tasks[t].batch) = {1, 2, 3}
        /\ events[1].uid = "f2" /\ events[2].uid = "f1" /\ events[3].uid = "f2"
        /\ events[1].arrive = events[3].arrive
        /\ Len(tasks[t].outcomes) = 2
        /\ tasks[t].outcomes[1].doc = "f2"
        /\ tasks[t].outcomes[2].doc = "f1"


----------------------------------------------------------------------------
(* Lookup-or-create *)

\* The events whose acknowledgment was sent and returned: each of them made
\* a PendingMediaGroup.
Creators(b) == { i \in 1..Len(events) : events[i].created /\ events[i].batch = b }

\* The PendingMediaGroups of key k that no task has popped.
OpenBatches(k) ==
    { b \in 1..Len(batches) :
        PoppedBy(b) = {} /\ \E i \in Creators(b) : events[i].key = k }

\* C25: when several events of a key that has no entry are handled at the
\* same time, one PendingMediaGroup is made and one acknowledgment is sent:
\* at most one handler is inside the acknowledgment, and only while its key
\* has no entry; every PendingMediaGroup was made by exactly one acknowledged
\* event; a key never has two unpopped PendingMediaGroups; the events that
\* waited are handled on the entry they find, without an acknowledgment.
C25_LookupOrCreate ==
    /\ [](/\ Cardinality({ i \in 1..Len(events) : events[i].pc = "ack" }) <= 1
          /\ \A i \in 1..Len(events) :
                events[i].pc = "ack" =>
                    /\ lockOwner = i
                    /\ pending_media_groups[events[i].key] = 0
          /\ \A b \in 1..Len(batches) : Cardinality(Creators(b)) = 1
          /\ \A k \in Keys :
                /\ Cardinality(OpenBatches(k)) <= 1
                /\ \A b \in OpenBatches(k) : pending_media_groups[k] = b
          /\ \A i \in 1..Len(events) :
                events[i].pc = "done" /\ ~events[i].created =>
                    \E c \in Creators(events[i].batch) :
                        c # i /\ events[c].key = events[i].key)
    /\ [][ \A i \in 1..Len(events') :
             LET was == IF i <= Len(events) THEN events[i].pc ELSE "new"
             IN  /\ events'[i].pc = "ack" /\ was # "ack" =>
                       pending_media_groups[events'[i].key] = 0
                 /\ events'[i].pc = "done" /\ was \in {"new", "lockwait"} =>
                       /\ pending_media_groups[events'[i].key] # 0
                       /\ events'[i].batch = pending_media_groups[events'[i].key]
                       /\ ~events'[i].created
                       /\ Len(batches') = Len(batches) ]_vars

\* C25 witness: three documents of album g1 came while the key had no entry;
\* the first was acknowledged and made the PendingMediaGroup, the second
\* waited for the lock and was appended to it unacknowledged, the third is
\* still waiting.
C25_Witness ==
    /\ Len(events) = 3
    /\ \A i \in 1..3 : events[i].key = "g1"
    /\ events[1].created /\ events[1].pc = "done"
    /\ events[2].pc = "done" /\ ~events[2].created /\ events[2].appended
    /\ events[2].batch = events[1].batch
    /\ events[3].pc = "lockwait"
    /\ Len(batches) = 1
    /\ Len(batches[1].documents) = 2


\* C26 (as claimed): a finalization that popped a batch ends in exactly one
\* of two ways: the status message deleted and every part of the summary
\* sent, or a failure notice in place of the status message and no part of a
\* summary sent; and no part is sent when the summarizer or every extraction
\* failed.
C26_SingleOutcome ==
    \A t \in 1..Len(tasks) :
        tasks[t].batch # 0 =>
            /\ tasks[t].summary = NoSummary => tasks[t].sent = 0
            /\ TaskDone(tasks[t]) =>
                  \/ /\ tasks[t].status = "deleted"
                     /\ SummaryEmitted(t)
                  \/ /\ NoticeEmitted(t)
                     /\ tasks[t].sent = 0

\* The last part of C26 alone: nothing of a summary is sent when the
\* summarizer or every extraction failed.
NoPartWithoutSummary ==
    \A t \in 1..Len(tasks) :
        tasks[t].batch # 0 /\ tasks[t].summary = NoSummary => tasks[t].sent = 0


----------------------------------------------------------------------------
(* Backend answers without content *)

\* What _ask_llm returns for the j-th answer of the backend.
Answered(j) ==
    IF summarizer.responses[j] = <<>> THEN FALLBACK ELSE summarizer.responses[j]

\* C27: an answer without content is not an error: the partial result it
\* stands for is the fixed fallback text, which goes into the content of the
\* final request like any other partial result; the step that takes the
\* answer sends the next request when one is due and never ends summarize in
\* a failure; an empty final answer makes the result the title and the
\* fallback text.
C27_NoContentFallback ==
    /\ [](Summarizing =>
            LET n == Len(summarizer.chunks)
            IN  /\ \A j \in 1..Len(summarizer.partials) :
                      summarizer.partials[j] = Answered(j)
                /\ n > 1 /\ Len(summarizer.responses) >= n =>
                      /\ Len(summarizer.calls) = n + 1
                      /\ summarizer.calls[n + 1].kind = "final"
                      /\ summarizer.calls[n + 1].content =
                            JoinWith([j \in 1..n |-> Answered(j)], <<"\n", "\n">>)
                /\ summarizer.pc = "returned" =>
                      summarizer.result =
                          Strip(Title(summarizer.file_name)
                                \o Answered(Len(summarizer.responses)))
                /\ summarizer.pc = "raised" =>
                      Len(summarizer.responses) < Len(summarizer.calls))
    /\ [][ Len(summarizer'.responses) # Len(summarizer.responses) =>
              /\ summarizer'.pc # "raised"
              /\ summarizer.pc = "partial" =>
                    /\ Len(summarizer'.calls) = Len(summarizer.calls) + 1
                    /\ summarizer'.pc \in {"partial", "final"}
              /\ summarizer.pc = "final" => summarizer'.pc = "returned" ]_vars

\* C27 witness: three chunks; the second partial answer had no content, the
\* third partial request and the final request were sent all the same, the
\* final content holding the fallback text, and summarize returned.
C27_Witness ==
    /\ summarizer.pc = "returned"
    /\ Len(summarizer.chunks) = 3
    /\ summarizer.responses[1] # <<>>
    /\ summarizer.responses[2] = <<>>
    /\ summarizer.partials[2] = FALLBACK
    /\ Len(summarizer.calls) = 4
    /\ summarizer.calls[4].content =
          summarizer.responses[1] \o <<"\n", "\n">> \o FALLBACK
              \o <<"\n", "\n">> \o Answered(3)


----------------------------------------------------------------------------
(* What a store leaves in the buffer *)

\* C28 (as claimed): after store_recent_text_message the stored entry is the
\* newest entry of the buffer of its (chat, user), whatever its date, an
\* entry older than the retention window too; what the store removed are
\* entries from the front of the old buffer; the other buffers are as they
\* were.
C28_StoredEntryPresent ==
    [][ nstored' = nstored + 1 =>
          \E k \in TextKeys :
              LET old == recent_chat_texts[k]
                  new == recent_chat_texts'[k]
              IN  /\ Len(new) >= 1
                  /\ \E d \in 0..Len(old) :
                        SubSeq(new, 1, Len(new) - 1) = SubSeq(old, d + 1, Len(old))
                  /\ \A o \in TextKeys \ {k} :
                        recent_chat_texts'[o] = recent_chat_texts[o]
      ]_vars

\* What holds instead: the entry is appended first and the cleanup then runs
\* over the buffer with the entry in it.
StoreAppendsThenCleans ==
    [][ nstored' = nstored + 1 =>
          \E k \in TextKeys :
              /\ \A o \in TextKeys \ {k} :
                    recent_chat_texts'[o] = recent_chat_texts[o]
              /\ \/ /\ recent_chat_texts'[k] = <<>>
                    /\ \A j \in 1..Len(recent_chat_texts[k]) :
                          recent_chat_texts[k][j].date
                              < now - CONTEXT_MESSAGE_MAX_AGE_SECONDS
                 \/ /\ Len(recent_chat_texts'[k]) >= 1
                    /\ \E d \in 0..Len(recent_chat_texts[k]) :
                          SubSeq(recent_chat_texts'[k], 1, Len(recent_chat_texts'[k]) - 1)
                              = SubSeq(recent_chat_texts[k], d + 1, Len(recent_chat_texts[k]))
      ]_vars


----------------------------------------------------------------------------
(* Two albums and the buffers of their senders *)

MaxFrameEvents == 2     \* document events of a behaviour of SpecFrame
MaxFrameStores == 1     \* text messages stored in a behaviour of SpecFrame

\* A message written 45 minutes ago: older than the retention window.
OldText(mid) == RecentChatText(mid, "hello", 0 - 3 * ClockStep)

\* The program has run for a while: the senders of both albums have an old
\* text message in their buffers.
InitFrame ==
    /\ now = 0
    /\ events = <<>>
    /\ batches = <<>>
    /\ pending_media_groups = [k \in Keys |-> 0]
    /\ lockOwner = 0
    /\ lockWaiters = <<>>
    /\ tasks = <<>>
    /\ recent_chat_texts =
          [k \in TextKeys |->
              IF k \in {<<"c1", "u1">>, <<"c2", "u1">>} THEN <<OldText(0)>> ELSE <<>>]
    /\ found = NoFind
    /\ nstored = 0
    /\ summarizer = NoSummarizer
    /\ splitRun = NoSplit
    /\ NoAccess

FrameArrive(d) ==
    /\ Len(events) < MaxFrameEvents
    /\ Deliver(d.key, d.uid, d.mid, d.user)

NextFrame ==
    \/ \E d \in DocEvents : FrameArrive(d)
    \/ \E i \in 1..Len(events) : HandlerLockGranted(i)
    \/ \E i \in 1..Len(events), ok \in BOOLEAN : AckReturn(i, ok)
    \/ \E t \in 1..Len(tasks) : TaskStart(t)
    \/ \E t \in 1..Len(tasks) : TimerExpire(t)
    \/ \E t \in 1..Len(tasks) : TaskResume(t)
    \/ \E t \in 1..Len(tasks) : TaskLockGranted(t)
    \/ \E t \in 1..Len(tasks) : DeliverCancel(t)
    \/ \E t \in 1..Len(tasks), ok \in BOOLEAN : EditReturn(t, ok)
    \/ /\ nstored < MaxFrameStores
       /\ \E k \in {<<"c1", "u1">>, <<"c1", "u2">>} :
              StoreText(k[1], k[2], 1, "price 100", now)
    \/ \E k \in {<<"c1", "u1">>, <<"c1", "u2">>} : FindContext(k[1], k[2], 10)
    \/ Tick

SpecFrame == InitFrame /\ [][NextFrame]_vars

\* The PendingMediaGroup of key k as the map and the heap have it, with the
\* state of its timer task; None when the key has no entry.
NoEntry == [entry |-> None]
BatchOf(k, pmg, bs, ts) ==
    IF pmg[k] = 0 THEN NoEntry
    ELSE [entry |-> bs[pmg[k]],
          timer |-> IF bs[pmg[k]].task = 0 THEN NoEntry ELSE ts[bs[pmg[k]].task]]

\* The keys whose handler or task took the step: the ones of the events and
\* tasks that are new or changed.
MovedKeys ==
    { events'[i].key : i \in { j \in 1..Len(events') :
                                 j > Len(events) \/ events'[j] # events[j] } }
    \cup
    { tasks'[t].key : t \in { j \in 1..Len(tasks') :
                                j > Len(tasks) \/ tasks'[j] # tasks[j] } }

----------------------------------------------------------------------------
(* No orphan entry *)

\* The timer tasks of key k that are scheduled, not cancelled and have not
\* popped.
LiveTimers(k) == { t \in 1..Len(tasks) : tasks[t].key = k /\ Outstanding(t) }

\* C30: whenever no handler holds pending_media_groups_lock, every entry of
\* the map has at least one document and exactly one live timer task, the
\* task the entry names, which is a task of the entry's key; no entry is
\* left with no document, with no timer or with a cancelled or finished
\* timer only.
C30_NoOrphanBatch ==
    lockOwner = 0 =>
        \A k \in Keys :
            pending_media_groups[k] # 0 =>
                LET p == batches[pending_media_groups[k]]
                IN  /\ Len(p.documents) >= 1
                    /\ p.task \in 1..Len(tasks)
                    /\ LiveTimers(k) = {p.task}

\* C30 witness: the entry of g1 has two documents and a duplicate of one of
\* them came last: its first timer was cancelled by the second document, the
\* duplicate armed nothing, and the second timer is the one live timer.
C30_Witness ==
    /\ lockOwner = 0
    /\ pending_media_groups["g1"] # 0
    /\ Len(batches[pending_media_groups["g1"]].documents) = 2
    /\ Len(events) = 3
    /\ events[3].pc = "done" /\ ~events[3].appended
    /\ events[3].batch = pending_media_groups["g1"]
    /\ \E t \in 1..Len(tasks) : tasks[t].key = "g1" /\ tasks[t].hit # "none"
    /\ Cardinality(LiveTimers("g1")) = 1

----------------------------------------------------------------------------
(* The access gate and the three locks, followed lock by lock:             *)
(* ensure_group_allowed, notify_and_leave_unauthorized_chat and the        *)
(* async with blocks of lines 267, 302, 378, 404 and 451.                  *)
(*                                                                         *)
(* async with lock is an await: it suspends when the lock is taken and     *)
(* runs on when it is free.  In this part a coroutine that got a lock is   *)
(* first seen holding it (position "locked") and runs the block in its     *)
(* next step, so that who holds which lock is a fact of the state.  The    *)
(* coroutines of the event loop switch at no other points than these, and  *)
(* not at a lock that is free.  The debounce sleep is a step that happens  *)
(* at some time; the work after the context lookup is one step.            *)

MaxAccessEvents == 3        \* updates handled in one behaviour

\* The updates a behaviour draws from (each may arrive repeatedly): texts,
\* files of the albums g1 (chat c1) and g2 (chat c2), a file that is no part
\* of an album, a command.
AccessEvents ==
    { [kind |-> "text", chat |-> "c1", key |-> None, uid |-> None, mid |-> 1, user |-> "u1"],
      [kind |-> "text", chat |-> "c2", key |-> None, uid |-> None, mid |-> 1, user |-> "u1"],
      [kind |-> "document", chat |-> "c1", key |-> "g1", uid |-> "f1", mid |-> 2, user |-> "u1"],
      [kind |-> "document", chat |-> "c1", key |-> "g1", uid |-> "f2", mid |-> 3, user |-> None],
      [kind |-> "document", chat |-> "c2", key |-> "g2", uid |-> "f1", mid |-> 2, user |-> "u1"],
      [kind |-> "document", chat |-> "c2", key |-> None, uid |-> "f3", mid |-> 3, user |-> "u1"],
      [kind |-> "command", chat |-> "c2", key |-> None, uid |-> None, mid |-> 4, user |-> "u1"] }

\* settings.whitelist_chat_ids as parse_whitelist_chat_ids returns it, never
\* empty: chat c1 only, or both chats.
Whitelists == {{"c1"}, {"c1", "c2"}}

\* The text of every text message of this part.
AccessText == "price 100"

\* A handler of an update, or (kind "finalize") a task of finalize_media_group.
\*   pc: lockwait  - waiting in acquire() of the lock named by .lock
\*       locked    - it has the lock named by .lock and has not run the block
\*       ack       - await message.reply_text(...) of line 270, lock held
\*       notify, leave - the awaits of lines 457 and 462
\*       reply     - await reply_text of a command or of process_single_document
\*       sleeping  - await asyncio.sleep(MEDIA_GROUP_WAIT_SECONDS)
\*       edit      - await status_message.edit_text(...) of line 310
\*       build     - build_combined_summary and what follows it
\*       done / failed / cancelled - finished
\* History kept for the properties: notice, leave - the attempt made and how
\* it ended; stored - the text was recorded; processed - extraction was
\* started for the update's file or the task's batch.
NewCoro(e) ==
    [kind |-> e.kind, chat |-> e.chat, key |-> e.key, uid |-> e.uid,
     mid |-> e.mid, user |-> e.user, pc |-> "new", lock |-> None,
     cancel |-> FALSE, batch |-> 0, notice |-> "none", leave |-> "none",
     stored |-> FALSE, processed |-> FALSE, context |-> None]

\* asyncio.create_task(self.finalize_media_group(media_group_id=..., bot=bot))
NewFinalize(k, chat) ==
    [kind |-> "finalize", chat |-> chat, key |-> k, uid |-> None,
     mid |-> 0, user |-> None, pc |-> "sleeping", lock |-> None,
     cancel |-> FALSE, batch |-> 0, notice |-> "none", leave |-> "none",
     stored |-> FALSE, processed |-> FALSE, context |-> None]

CoroDone(c) == c.pc \in {"done", "failed", "cancelled"}

Handlers == { c \in 1..Len(coros) : coros[c].kind # "finalize" }

\* asyncio.Lock.acquire(): the lock is taken at once when it is not locked
\* and nobody waits for it.
CanTake(ls, l) == ls[l].owner = 0 /\ ls[l].waiters = <<>>

Take(ls, l, c) ==
    IF CanTake(ls, l)
    THEN [ls EXCEPT ![l].owner = c]
    ELSE [ls EXCEPT ![l].waiters = Append(@, c)]

\* asyncio.Lock.release(), the end of an async with block.
Release(ls, l) == [ls EXCEPT ![l].owner = 0]

\* Coroutine c of cs reaches "async with" of lock l.
EnterLock(c, l, cs) ==
    /\ locks' = Take(locks, l, c)
    /\ coros' = [cs EXCEPT ![c].lock = l,
                           ![c].pc = IF CanTake(locks, l) THEN "locked" ELSE "lockwait"]

\* ensure_group_allowed for a message of a group or supergroup (lines
\* 442-446): True when the allow-list is empty or names the chat.
IsAllowed(whitelist, chat) ==
    whitelist = {} \/ chat \in whitelist

\* Mutant of DeniedAdd: the chat is not remembered.
DeniedAddNothing(denied, chat) == denied

\* self.denied_chat_ids.add(chat_id)
DeniedAdd(denied, chat) == denied \cup {chat}

\* Mutant of AfterPop: the rest of finalize_media_group runs inside the
\* async with block of line 302.
AfterPopHolds(ls) == ls

\* The async with block of lines 302-303 ends after the pop.
AfterPop(ls) == Release(ls, PENDING_LOCK)

accessFrame == <<now, events, lockOwner, lockWaiters, tasks, found, nstored,
                 sumVars, whitelist_chat_ids>>

\* An update arrives and its handler runs to its first await:
\* ensure_group_allowed, then the handler's own checks.
AccessArrive(e) ==
    /\ Cardinality(Handlers) < MaxAccessEvents
    /\ LET cs == Append(coros, NewCoro(e))
           c == Len(cs)
       IN  IF ~IsAllowed(whitelist_chat_ids, e.chat)
           THEN \* notify_and_leave_unauthorized_chat, line 451
                EnterLock(c, DENIED_LOCK, cs)
           ELSE IF e.kind = "text"
           THEN \* store_recent_text_message, line 378
                EnterLock(c, TEXT_LOCK, cs)
           ELSE IF e.kind = "document" /\ e.key # None
           THEN \* queue_media_group_document, line 267
                EnterLock(c, PENDING_LOCK, cs)
           ELSE \* start / help, process_single_document: reply_text
                /\ coros' = [cs EXCEPT ![c].pc = "reply"]
                /\ locks' = locks
    /\ UNCHANGED <<accessFrame, batches, pending_media_groups, recent_chat_texts,
                   denied_chat_ids>>

\* The coroutine at the head of a released lock's queue gets the lock.
LockGranted(c) ==
    /\ coros[c].pc = "lockwait"
    /\ ~coros[c].cancel
    /\ LET l == coros[c].lock
       IN  /\ locks[l].owner = 0
           /\ locks[l].waiters # <<>>
           /\ Head(locks[l].waiters) = c
           /\ locks' = [locks EXCEPT ![l].owner = c, ![l].waiters = Tail(@)]
    /\ coros' = [coros EXCEPT ![c].pc = "locked"]
    /\ UNCHANGED <<accessFrame, batches, pending_media_groups, recent_chat_texts,
                   denied_chat_ids>>

\* Lines 452-454 under denied_chat_ids_lock; a chat seen before ends the
\* handler (ensure_group_allowed returns False).
DenyBody(c) ==
    /\ coros[c].pc = "locked"
    /\ coros[c].lock = DENIED_LOCK
    /\ locks' = Release(locks, DENIED_LOCK)
    /\ IF coros[c].chat \in denied_chat_ids
       THEN /\ coros' = [coros EXCEPT ![c].pc = "done", ![c].lock = None]
            /\ UNCHANGED denied_chat_ids
       ELSE /\ denied_chat_ids' = DeniedAdd(denied_chat_ids, coros[c].chat)
            /\ coros' = [coros EXCEPT ![c].pc = "notify", ![c].lock = None]
    /\ UNCHANGED <<accessFrame, batches, pending_media_groups, recent_chat_texts>>

\* bot.send_message(UNAUTHORIZED_CHAT_TEXT) returned (ok) or raised (~ok,
\* logged); leave_chat is next either way.
UnauthorizedNoticeReturn(c, ok) ==
    /\ coros[c].pc = "notify"
    /\ coros' = [coros EXCEPT ![c].pc = "leave",
                              ![c].notice = IF ok THEN "sent" ELSE "failed"]
    /\ UNCHANGED <<accessFrame, batches, pending_media_groups, recent_chat_texts,
                   denied_chat_ids, locks>>

\* bot.leave_chat returned (ok) or raised (~ok, logged).
LeaveChatReturn(c, ok) ==
    /\ coros[c].pc = "leave"
    /\ coros' = [coros EXCEPT ![c].pc = "done",
                              ![c].leave = IF ok THEN "left" ELSE "failed"]
    /\ UNCHANGED <<accessFrame, batches, pending_media_groups, recent_chat_texts,
                   denied_chat_ids, locks>>

\* Lines 379-392 under recent_chat_texts_lock.
StoreBody(c) ==
    /\ coros[c].pc = "locked"
    /\ coros[c].lock = TEXT_LOCK
    /\ coros[c].kind = "text"
    /\ recent_chat_texts' =
           [recent_chat_texts EXCEPT ![<<coros[c].chat, coros[c].user>>] =
                StoreRecent(@, RecentChatText(coros[c].mid, AccessText, now), now)]
    /\ locks' = Release(locks, TEXT_LOCK)
    /\ coros' = [coros EXCEPT ![c].pc = "done", ![c].lock = None, ![c].stored = TRUE]
    /\ UNCHANGED <<accessFrame, batches, pending_media_groups, denied_chat_ids>>

\* Lines 285-294 for handler c of cs and entry b of bs: the duplicate returns,
\* anything else is appended, the entry's task cancelled and its successor
\* created; the block ends either way.
QueueAppend(c, b, bs, cs) ==
    LET payload == DocumentPayload(cs[c].uid)
        p == bs[b]
    IN  /\ locks' = Release(locks, PENDING_LOCK)
        /\ IF IsDuplicate(p.documents, payload)
           THEN /\ batches' = bs
                /\ coros' = [cs EXCEPT ![c].pc = "done", ![c].lock = None]
           ELSE LET cancelled ==
                        IF p.task # 0 /\ ~CoroDone(cs[p.task])
                        THEN [cs EXCEPT ![p.task].cancel = TRUE]
                        ELSE cs
                    created == Append(cancelled, NewFinalize(cs[c].key, p.chat_id))
                IN  /\ batches' = [bs EXCEPT ![b].documents = Append(@, payload),
                                             ![b].task = Len(created)]
                    /\ coros' = [created EXCEPT ![c].pc = "done", ![c].lock = None,
                                                ![c].batch = b]

\* Lines 268-283 under pending_media_groups_lock: no entry - reply_text is
\* awaited with the lock held; an entry - it is merged and lines 285-294 run.
QueueBody(c) ==
    /\ coros[c].pc = "locked"
    /\ coros[c].lock = PENDING_LOCK
    /\ coros[c].kind = "document"
    /\ LET b == pending_media_groups[coros[c].key]
       IN  IF b = 0
           THEN /\ coros' = [coros EXCEPT ![c].pc = "ack"]
                /\ UNCHANGED <<batches, locks>>
           ELSE QueueAppend(c, b, [batches EXCEPT ![b] = MergeEvent(@, coros[c])], coros)
    /\ UNCHANGED <<accessFrame, pending_media_groups, recent_chat_texts, denied_chat_ids>>

\* reply_text of line 270 returned (ok) or raised (~ok): the exception leaves
\* the async with block, which releases the lock.
QueueAckReturn(c, ok) ==
    /\ coros[c].pc = "ack"
    /\ IF ok
       THEN LET b == Len(batches) + 1
                bs == Append(batches, PendingMediaGroup(coros[c].chat, coros[c].user,
                                                        coros[c].mid))
            IN  /\ pending_media_groups' =
                       [pending_media_groups EXCEPT ![coros[c].key] = b]
                /\ QueueAppend(c, b, bs, coros)
       ELSE /\ coros' = [coros EXCEPT ![c].pc = "failed", ![c].lock = None]
            /\ locks' = Release(locks, PENDING_LOCK)
            /\ UNCHANGED <<batches, pending_media_groups>>
    /\ UNCHANGED <<accessFrame, recent_chat_texts, denied_chat_ids>>

\* reply_text of a command or of process_single_document returned; the
\* single document goes on to extraction and the summary.
ReplyReturn(c) ==
    /\ coros[c].pc = "reply"
    /\ coros' = [coros EXCEPT ![c].pc = "done",
                              ![c].processed = (coros[c].kind = "document")]
    /\ UNCHANGED <<accessFrame, batches, pending_media_groups, recent_chat_texts,
                   denied_chat_ids, locks>>

\* The sleep of line 298 is over and the task reaches line 302.
FinalizeWake(c) ==
    /\ coros[c].kind = "finalize"
    /\ coros[c].pc = "sleeping"
    /\ ~coros[c].cancel
    /\ EnterLock(c, PENDING_LOCK, coros)
    /\ UNCHANGED <<accessFrame, batches, pending_media_groups, recent_chat_texts,
                   denied_chat_ids>>

\* Line 303 under pending_media_groups_lock, the end of the block, and
\* "if pending is None: return".
PopBody(c) ==
    /\ coros[c].pc = "locked"
    /\ coros[c].lock = PENDING_LOCK
    /\ coros[c].kind = "finalize"
    /\ LET b == pending_media_groups[coros[c].key]
       IN  /\ pending_media_groups' = [pending_media_groups EXCEPT ![coros[c].key] = 0]
           /\ coros' = [coros EXCEPT ![c].pc = IF b = 0 THEN "done" ELSE "edit",
                                     ![c].lock = None, ![c].batch = b]
    /\ locks' = AfterPop(locks)
    /\ UNCHANGED <<accessFrame, batches, recent_chat_texts, denied_chat_ids>>

\* edit_text of line 310 returned (ok) or raised (~ok: the except clause of
\* line 330 ends the task); then find_recent_text_message, which returns at
\* once for a batch without a sender and takes recent_chat_texts_lock for any
\* other.
StatusEditReturn(c, ok) ==
    /\ coros[c].pc = "edit"
    /\ IF ~ok
       THEN /\ coros' = [coros EXCEPT ![c].pc = "failed"]
            /\ UNCHANGED locks
       ELSE IF batches[coros[c].batch].source_user_id = None
       THEN /\ coros' = [coros EXCEPT ![c].pc = "build"]
            /\ UNCHANGED locks
       ELSE EnterLock(c, TEXT_LOCK, coros)
    /\ UNCHANGED <<accessFrame, batches, pending_media_groups, recent_chat_texts,
                   denied_chat_ids>>

\* Lines 405-418 under recent_chat_texts_lock.
FindBody(c) ==
    /\ coros[c].pc = "locked"
    /\ coros[c].lock = TEXT_LOCK
    /\ coros[c].kind = "finalize"
    /\ LET p == batches[coros[c].batch]
           r == FindRecentTextMessage(recent_chat_texts, p.chat_id, p.source_user_id,
                                      p.first_message_id, now)
       IN  /\ recent_chat_texts' = r.texts
           /\ coros' = [coros EXCEPT ![c].pc = "build", ![c].lock = None,
                                     ![c].context = r.item.text]
    /\ locks' = Release(locks, TEXT_LOCK)
    /\ UNCHANGED <<accessFrame, batches, pending_media_groups, denied_chat_ids>>

\* build_combined_summary and the sends returned (ok) or raised (~ok).
BuildReturn(c, ok) ==
    /\ coros[c].pc = "build"
    /\ coros' = [coros EXCEPT ![c].pc = IF ok THEN "done" ELSE "failed",
                              ![c].processed = TRUE]
    /\ UNCHANGED <<accessFrame, batches, pending_media_groups, recent_chat_texts,
                   denied_chat_ids, locks>>

\* CancelledError reaches a task cancel() was called on: in the sleep the
\* except clause of lines 299-300 returns; in acquire() the task leaves the
\* lock's queue; an async with block it is in releases its lock.
CancelDelivered(c) ==
    /\ coros[c].cancel
    /\ ~CoroDone(coros[c])
    /\ coros' = [coros EXCEPT ![c].pc = AfterCancel(@), ![c].cancel = FALSE,
                              ![c].lock = None]
    /\ locks' = [l \in LockNames |->
                    [owner |-> IF locks[l].owner = c THEN 0 ELSE locks[l].owner,
                     waiters |-> SelectSeq(locks[l].waiters, LAMBDA w : w # c)]]
    /\ UNCHANGED <<accessFrame, batches, pending_media_groups, recent_chat_texts,
                   denied_chat_ids>>

InitAccess ==
    /\ now = 0
    /\ events = <<>>
    /\ batches = <<>>
    /\ pending_media_groups = [k \in Keys |-> 0]
    /\ lockOwner = 0
    /\ lockWaiters = <<>>
    /\ tasks = <<>>
    /\ recent_chat_texts = [k \in TextKeys |-> <<>>]
    /\ found = NoFind
    /\ nstored = 0
    /\ summarizer = NoSummarizer
    /\ splitRun = NoSplit
    /\ whitelist_chat_ids \in Whitelists
    /\ denied_chat_ids = {}
    /\ locks = FreeLocks
    /\ coros = <<>>

NextAccess ==
    \/ \E e \in AccessEvents : AccessArrive(e)
    \/ \E c \in 1..Len(coros) : LockGranted(c)
    \/ \E c \in 1..Len(coros) : DenyBody(c)
    \/ \E c \in 1..Len(coros), ok \in BOOLEAN : UnauthorizedNoticeReturn(c, ok)
    \/ \E c \in 1..Len(coros), ok \in BOOLEAN : LeaveChatReturn(c, ok)
    \/ \E c \in 1..Len(coros) : StoreBody(c)
    \/ \E c \in 1..Len(coros) : QueueBody(c)
    \/ \E c \in 1..Len(coros), ok \in BOOLEAN : QueueAckReturn(c, ok)
    \/ \E c \in 1..Len(coros) : ReplyReturn(c)
    \/ \E c \in 1..Len(coros) : FinalizeWake(c)
    \/ \E c \in 1..Len(coros) : PopBody(c)
    \/ \E c \in 1..Len(coros), ok \in BOOLEAN : StatusEditReturn(c, ok)
    \/ \E c \in 1..Len(coros) : FindBody(c)
    \/ \E c \in 1..Len(coros), ok \in BOOLEAN : BuildReturn(c, ok)
    \/ \E c \in 1..Len(coros) : CancelDelivered(c)

SpecAccess == InitAccess /\ [][NextAccess]_vars

----------------------------------------------------------------------------
(* C31: lock discipline *)

\* The locks coroutine c holds, and the locks in whose queue it is.
Holds(c) == { l \in LockNames : locks[l].owner = c }
WaitsFor(c) ==
    { l \in LockNames : \E j \in 1..Len(locks[l].waiters) : locks[l].waiters[j] = c }

\* Any step of coroutine c.
CoroStep(c) ==
    \/ LockGranted(c)
    \/ DenyBody(c)
    \/ \E ok \in BOOLEAN : UnauthorizedNoticeReturn(c, ok)
    \/ \E ok \in BOOLEAN : LeaveChatReturn(c, ok)
    \/ StoreBody(c)
    \/ QueueBody(c)
    \/ \E ok \in BOOLEAN : QueueAckReturn(c, ok)
    \/ ReplyReturn(c)
    \/ FinalizeWake(c)
    \/ PopBody(c)
    \/ \E ok \in BOOLEAN : StatusEditReturn(c, ok)
    \/ FindBody(c)
    \/ \E ok \in BOOLEAN : BuildReturn(c, ok)
    \/ CancelDelivered(c)

\* Coroutine c can take a step, or it waits for a lock whose holder can take
\* one, or for a free lock whose queue has a head that can.
CanProceed(c) ==
    \/ ENABLED CoroStep(c)
    \/ /\ coros[c].pc = "lockwait"
       /\ coros[c].lock \in LockNames
       /\ LET l == locks[coros[c].lock]
          IN  IF l.owner # 0
              THEN l.owner \in 1..Len(coros) /\ ENABLED CoroStep(l.owner)
              ELSE /\ l.waiters # <<>>
                   /\ Head(l.waiters) \in 1..Len(coros)
                   /\ ENABLED CoroStep(Head(l.waiters))

\* C31: In every reachable state of the handlers and finalize tasks, taken
\* lock by lock: a coroutine holds at most one of the three locks, and only
\* at the start of its async with block or in the reply_text awaited inside
\* the batch block; a coroutine that holds a lock waits for none; a task past
\* the pop (status edit, context lookup, summary) does not hold the batch
\* lock; a coroutine that finished, by return, duplicate return, exception or
\* cancellation, holds no lock and is in no queue; and every unfinished
\* coroutine can step or waits for one that can, so nothing is deadlocked.
C31_LockDiscipline ==
    \A c \in 1..Len(coros) :
        /\ Cardinality(Holds(c)) <= 1
        /\ Holds(c) # {} =>
               /\ coros[c].pc \in {"locked", "ack"}
               /\ Holds(c) = {coros[c].lock}
               /\ WaitsFor(c) = {}
        /\ coros[c].pc \in {"locked", "ack"} => Holds(c) = {coros[c].lock}
        /\ WaitsFor(c) # {} =>
               /\ coros[c].pc = "lockwait"
               /\ WaitsFor(c) = {coros[c].lock}
        /\ (coros[c].kind = "finalize"
               /\ (coros[c].pc \in {"edit", "build"} \/ coros[c].lock = TEXT_LOCK))
           => locks[PENDING_LOCK].owner # c
        /\ CoroDone(coros[c]) => Holds(c) = {} /\ WaitsFor(c) = {}
        /\ ~CoroDone(coros[c]) => CanProceed(c)

\* A finalize task holds recent_chat_texts_lock for its lookup while a
\* handler holds pending_media_groups_lock in its reply_text, a text handler
\* waits for the lock of the task, and the exits by duplicate, exception and
\* cancellation were taken by others before.
C31_Witness ==
    \E t, h, w \in 1..Len(coros) :
        /\ coros[t].kind = "finalize"
        /\ coros[t].pc = "locked"
        /\ locks[TEXT_LOCK].owner = t
        /\ coros[h].pc = "ack"
        /\ locks[PENDING_LOCK].owner = h
        /\ coros[w].kind = "text"
        /\ coros[w].pc = "lockwait"
        /\ locks[TEXT_LOCK].waiters = <<w>>

\* The exits of a critical section other than the normal one are taken: a
\* task cancelled in the lock's queue, a handler whose reply_text raised.
C31_ExitsTaken ==
    /\ \E t \in 1..Len(coros) : coros[t].pc = "cancelled"
    /\ \E h \in 1..Len(coros) : coros[h].kind = "document" /\ coros[h].pc = "failed"

----------------------------------------------------------------------------
(* C32: the access gate *)

\* A group chat that a non-empty allow-list does not name.
Unlisted(chat) == whitelist_chat_ids # {} /\ chat \notin whitelist_chat_ids

\* The handlers that started the unauthorized notice for a chat, and the ones
\* that started leave_chat.
NoticeAttempts(chat) ==
    { c \in 1..Len(coros) :
        /\ coros[c].chat = chat
        /\ (coros[c].pc \in {"notify", "leave"} \/ coros[c].notice # "none"
               \/ coros[c].leave # "none") }
LeaveAttempts(chat) ==
    { c \in 1..Len(coros) :
        coros[c].chat = chat /\ (coros[c].pc = "leave" \/ coros[c].leave # "none") }

\* The coroutines that take part in a step: the ones it moves or creates.
Moved ==
    { c \in 1..Len(coros') : c > Len(coros) \/ coros'[c] # coros[c] }

\* C32: With a non-empty allow-list, for every group chat that is not on it:
\* no text of the chat is in the recent-text buffer, no PendingMediaGroup is
\* of the chat and no finalize task runs for it, no handler of the chat
\* reaches a store, the batch map, an extraction or a reply (it is at the
\* denied-chat lock, in the notice, in leave_chat, or finished); at most one
\* handler of the chat ever started the notice, and at most one leave_chat;
\* and no step in which a handler of such a chat moves changes the batches,
\* the batch map or the recent-text buffer.
C32_AccessGate ==
    /\ [](\A chat \in Chats :
            Unlisted(chat) =>
                /\ \A u \in Users : recent_chat_texts[<<chat, u>>] = <<>>
                /\ \A b \in 1..Len(batches) : batches[b].chat_id # chat
                /\ \A k \in Keys : ChatOf(k) = chat => pending_media_groups[k] = 0
                /\ \A c \in 1..Len(coros) :
                       coros[c].chat = chat =>
                           /\ coros[c].kind # "finalize"
                           /\ ~coros[c].stored
                           /\ ~coros[c].processed
                           /\ coros[c].pc \in {"lockwait", "locked", "notify", "leave", "done"}
                           /\ coros[c].lock \in {None, DENIED_LOCK}
                /\ Cardinality(NoticeAttempts(chat)) <= 1
                /\ Cardinality(LeaveAttempts(chat)) <= 1)
    /\ [][ (\E c \in Moved : Unlisted(coros'[c].chat)) =>
               /\ batches' = batches
               /\ pending_media_groups' = pending_media_groups
               /\ recent_chat_texts' = recent_chat_texts ]_vars

\* Chat c2 is not on the allow-list: a first update of it got the notice and
\* leave_chat, a text and a file of an album that came later were turned away
\* without either, and a handler of the listed chat stored its text.
C32_Witness ==
    /\ whitelist_chat_ids = {"c1"}
    /\ denied_chat_ids = {"c2"}
    /\ \E a, b, c \in 1..Len(coros) :
           /\ coros[a].chat = "c2" /\ coros[a].notice # "none" /\ coros[a].leave # "none"
           /\ coros[b].chat = "c2" /\ coros[b].kind = "text"
           /\ coros[b].pc = "done" /\ coros[b].notice = "none"
           /\ coros[c].chat = "c2" /\ coros[c].kind = "document" /\ coros[c].key # None
           /\ coros[c].pc = "done" /\ coros[c].notice = "none"

====
